---- MODULE Spec2Model ----
(***************************************************************************)
(* A model of the rule evaluation engine of rules_engine.py:               *)
(*   - evaluate_rules: the atomic rule evaluator (operator semantics,      *)
(*     per-rule log entries, score accumulation);                          *)
(*   - evaluate_business_rules: the business rule evaluator (option        *)
(*     satisfaction, one winner per group);                                *)
(*   - _load_csv_rows_dynamic: the rule source resolver (remote sheet,     *)
(*     object-storage cache with a TTL, local fallback file).              *)
(*                                                                         *)
(* Python values are tagged records (see PyNone .. PyList).  Strings are   *)
(* sequences of one-character strings so that strip(), upper() and float() *)
(* are computed, not assumed.  Python floats that hold weights are         *)
(* modelled by a binary floating-point format with MantBits significand    *)
(* bits and round-half-to-even (IEEE-754 doubles have 53; TLC's integers   *)
(* are 32 bits wide), so that the rounding of score += applied is part of  *)
(* the model.                                                              *)
(***************************************************************************)
EXTENDS Integers, Sequences, FiniteSets, TLC

VARIABLES
    provider,      \* evaluate_rules: the adapter, metric name -> outcome of get_metric
    rules,         \* evaluate_rules: the input rule list
    idx,           \* evaluate_rules: position of the for loop (1-based)
    score,         \* evaluate_rules: local score
    log,           \* evaluate_rules: local log
    exc,           \* the exception that left the running function ("" when none)
    pc,            \* where the running function is
    atomic_log,    \* evaluate_business_rules: the atomic log it is given
    br_options,    \* evaluate_business_rules: the options it is given
    matched_atomic_ids,  \* evaluate_business_rules: ids of the matched entries
    groups,        \* evaluate_business_rules: the options by group_id, in insertion order
    gidx,          \* evaluate_business_rules: position of the loop over the groups
    chosen,        \* evaluate_business_rules: local chosen of the last group (None or an option)
    business_score,      \* evaluate_business_rules: local business_score
    business_log,  \* evaluate_business_rules: local business_log
    environ,       \* os.environ: variable name -> None or a string
    s3,            \* the object store: client availability, failures, objects by key
    sheets,        \* the remote spreadsheet: sheet name -> fetch outcome
    files,         \* the local file system: path -> existence and text
    now,           \* datetime.now(timezone.utc), in seconds
    call,          \* _load_csv_rows_dynamic: provider_name, kind, fallback_path
    result,        \* _load_csv_rows_dynamic: the value returned (None or rows)
    io,            \* _load_csv_rows_dynamic: the store, network and file calls made
    provider_payloads,     \* the run over the providers: name and payload of each, in order
    pidx,          \* the run: position of the loop over the providers
    total_score,   \* the run: local total_score
    all_provider_results,  \* the run: provider name -> score breakdown or error descriptor
    entry,         \* the run: the function that runs the providers
    suspended,     \* the worker that is not running: its locals
    history,       \* what is kept of the resolutions or runs that returned
    snapshot       \* the object store and the providers the workers started with

\* the variables of evaluate_rules and of evaluate_business_rules
ruleVars == <<provider, rules, idx, score, log>>
brVars == <<atomic_log, br_options, matched_atomic_ids, groups, gidx, chosen,
            business_score, business_log>>
ldVars == <<environ, s3, sheets, files, now, call, result, io>>
\* the variables of a run over the providers, and of its workers
runVars == <<provider_payloads, pidx, total_score, all_provider_results, entry>>
parVars == <<suspended, history, snapshot>>
vars == <<ruleVars, brVars, ldVars, runVars, parVars, exc, pc>>

(***************************************************************************)
(* Bounds of the model.                                                    *)
(***************************************************************************)
\* Longest rule list built from BasicRules.
MaxRules == 3
\* Longest option list built from BasicOptions.
MaxOptions == 3
\* Significand bits of the modelled floating-point format.
MantBits == 3

(***************************************************************************)
(* Python values.                                                          *)
(***************************************************************************)
PyNone == [t |-> "none", b |-> FALSE, n |-> 0, s |-> <<>>]
PyBool(x) == [t |-> "bool", b |-> x, n |-> 0, s |-> <<>>]
\* int and float: the numbers of the model are integers, which both hold exactly
PyNum(x) == [t |-> "num", b |-> FALSE, n |-> x, s |-> <<>>]
PyStr(x) == [t |-> "str", b |-> FALSE, n |-> 0, s |-> x]
\* a list (collection) of x elements
PyList(x) == [t |-> "list", b |-> FALSE, n |-> x, s |-> <<>>]

IsNone(v) == v.t = "none"

\* The value a loader returns: None, or a list of rows.
NoRows == [none |-> TRUE, rows |-> <<>>]
Rows(r) == [none |-> FALSE, rows |-> r]

\* The result of a call: a value, or an exception of type e.
Ret(v) == [raised |-> FALSE, exc |-> "", v |-> v]
Raise(e) == [raised |-> TRUE, exc |-> e, v |-> PyNone]

(***************************************************************************)
(* str.strip(), str.upper(), float(), bool(), == and >= of Python.         *)
(***************************************************************************)
LowerCase == <<"a", "b", "c", "d", "e", "f", "g", "h", "i", "j", "k", "l", "m",
               "n", "o", "p", "q", "r", "s", "t", "u", "v", "w", "x", "y", "z">>
UpperCase == <<"A", "B", "C", "D", "E", "F", "G", "H", "I", "J", "K", "L", "M",
               "N", "O", "P", "Q", "R", "S", "T", "U", "V", "W", "X", "Y", "Z">>
Digits == <<"0", "1", "2", "3", "4", "5", "6", "7", "8", "9">>

UpperChar(c) ==
    IF \E k \in 1..26 : LowerCase[k] = c
    THEN UpperCase[CHOOSE k \in 1..26 : LowerCase[k] = c]
    ELSE c

\* str.upper()
StrUpper(s) == [k \in 1..Len(s) |-> UpperChar(s[k])]

RECURSIVE LStrip(_)
LStrip(s) == IF s # <<>> /\ Head(s) = " " THEN LStrip(Tail(s)) ELSE s

RECURSIVE RStrip(_)
RStrip(s) ==
    IF s # <<>> /\ s[Len(s)] = " " THEN RStrip(SubSeq(s, 1, Len(s) - 1)) ELSE s

\* str.strip()
StrStrip(s) == RStrip(LStrip(s))

IsDigit(c) == \E k \in 1..10 : Digits[k] = c
DigitVal(c) == (CHOOSE k \in 1..10 : Digits[k] = c) - 1

RECURSIVE DigitsVal(_)
DigitsVal(s) ==
    IF s = <<>> THEN 0
    ELSE 10 * DigitsVal(SubSeq(s, 1, Len(s) - 1)) + DigitVal(s[Len(s)])

\* float(str): surrounding whitespace is ignored, then an optional sign and
\* digits.  The strings of the model hold no '.', exponent, "inf" or "nan".
StrToFloat(s) ==
    LET t == StrStrip(s)
        neg == t # <<>> /\ Head(t) = "-"
        d == IF t # <<>> /\ Head(t) \in {"-", "+"} THEN Tail(t) ELSE t
    IN  IF d # <<>> /\ \A k \in 1..Len(d) : IsDigit(d[k])
        THEN Ret(PyNum(IF neg THEN 0 - DigitsVal(d) ELSE DigitsVal(d)))
        ELSE Raise("ValueError")

\* float(v)
PyFloat(v) ==
    CASE v.t = "num" -> Ret(PyNum(v.n))
      [] v.t = "bool" -> Ret(PyNum(IF v.b THEN 1 ELSE 0))
      [] v.t = "str" -> StrToFloat(v.s)
      [] OTHER -> Raise("TypeError")

\* The number a bool, int or float stands for in arithmetic and comparison.
NumOf(v) == IF v.t = "bool" THEN (IF v.b THEN 1 ELSE 0) ELSE v.n
IsNumeric(v) == v.t \in {"num", "bool"}

\* v == w
PyEq(v, w) ==
    IF IsNumeric(v) /\ IsNumeric(w) THEN NumOf(v) = NumOf(w)
    ELSE v = w

\* v >= w and v <= w: defined between numbers, TypeError otherwise
PyGE(v, w) ==
    IF IsNumeric(v) /\ IsNumeric(w) THEN Ret(PyBool(NumOf(v) >= NumOf(w)))
    ELSE Raise("TypeError")

PyLE(v, w) ==
    IF IsNumeric(v) /\ IsNumeric(w) THEN Ret(PyBool(NumOf(v) <= NumOf(w)))
    ELSE Raise("TypeError")

(***************************************************************************)
(* Floating-point addition (score += applied).  A float of the model is a  *)
(* natural number with at most MantBits significant bits.                  *)
(***************************************************************************)
RECURSIVE Ulp(_)
\* the spacing of the floats around x >= 0
Ulp(x) == IF x < 2 ^ MantBits THEN 1 ELSE 2 * Ulp(x \div 2)

\* x >= 0 rounded to the nearest float, ties to the even significand
Round(x) ==
    LET u == Ulp(x)
        q == x \div u
        r == x % u
    IN  IF 2 * r < u THEN q * u
        ELSE IF 2 * r > u THEN (q + 1) * u
        ELSE IF q % 2 = 0 THEN q * u ELSE (q + 1) * u

FAddDropsAccumulator(a, b) == b

\* a + b of two floats
FAdd(a, b) == Round(a + b)

\* The largest power of two whose successor integer is not a float.
BigWeight == 2 ^ MantBits

(***************************************************************************)
(* load_rules: the parse of the value_exact cell.                          *)
(***************************************************************************)
ParseExact(cell) ==
    LET raw_exact == StrStrip(cell)
        upper_exact == StrUpper(raw_exact)
    IN  IF raw_exact = <<>> THEN PyNone
        ELSE IF upper_exact = <<"T", "R", "U", "E">> THEN PyBool(TRUE)
        ELSE IF upper_exact = <<"F", "A", "L", "S", "E">> THEN PyBool(FALSE)
        ELSE IF StrToFloat(raw_exact).raised THEN PyStr(raw_exact)
        ELSE StrToFloat(raw_exact).v

\* value_exact cells of a rule table
RawExactCells ==
    { <<>>, <<"f", "a", "l", "s", "e">>, <<" ", "5">>, <<"a", "b", "c">> }

\* The value_exact of a Rule: what load_rules parses from a cell, and the
\* strings a Rule built directly may carry (evaluate_rules handles them).
ExactValues ==
    { ParseExact(c) : c \in RawExactCells }
        \cup { PyStr(<<"T", "R", "U", "E">>), PyStr(<<" ", "f", "a", "l", "s", "e">>) }

\* value_low and value_high of a Rule: Optional[float]
BoundValues == { PyNone, PyNum(1), PyNum(5) }

(***************************************************************************)
(* The provider adapter: get_metric(metric, window_value, window_unit).    *)
(* The metric key of the model stands for the three arguments.             *)
(***************************************************************************)
MetricNames ==
    << "none", "flag", "no_flag", "zero", "one", "five", "blank", "text",
       "digits", "no_items", "items", "unsupported", "broken" >>

MetricOutcomes ==
    << Ret(PyNone), Ret(PyBool(TRUE)), Ret(PyBool(FALSE)), Ret(PyNum(0)),
       Ret(PyNum(1)), Ret(PyNum(5)), Ret(PyStr(<<>>)), Ret(PyStr(<<"a", "b", "c">>)),
       Ret(PyStr(<<"5">>)), Ret(PyList(0)), Ret(PyList(2)),
       Raise("ValueError"), Raise("KeyError") >>

NumMetrics == Len(MetricNames)
Metrics == { MetricNames[k] : k \in 1..NumMetrics }
MetricIndex(m) == CHOOSE k \in 1..NumMetrics : MetricNames[k] = m

\* Adapters: the k-th gives metric j the outcome j + k (cyclically).
NumProviders == 2
ProviderOf(k) ==
    [m \in Metrics |-> MetricOutcomes[((MetricIndex(m) - 1 + k) % NumMetrics) + 1]]
Providers == { ProviderOf(k) : k \in 0..(NumProviders - 1) }

\* provider.get_metric(rule.metric, rule.window_value, rule.window_unit)
GetMetric(p, rule) == p[rule.metric]

(***************************************************************************)
(* Rules.                                                                  *)
(***************************************************************************)
Rule(id, metric, operator, value_low, value_high, value_exact, weight, is_gate) ==
    [id |-> id, metric |-> metric, operator |-> operator,
     value_low |-> value_low, value_high |-> value_high,
     value_exact |-> value_exact, weight |-> weight, is_gate |-> is_gate]

CompareOps == {"LT", "LTE", "GT", "GTE"}
RangeOps == {"RANGE", "BETWEEN"}
KnownOps == {"EXISTS", "MISSING", "EQ", "NE"} \cup CompareOps \cup RangeOps
\* operator strings evaluate_rules does not recognise
OtherOps == {"FOO", "exists"}

\* Rule ids are unique within a rule list: the k-th rule is "r<k>".
RuleIds == <<"r1", "r2", "r3", "r4", "r5">>
WithId(r, k) == [r EXCEPT !.id = RuleIds[k]]

\* One rule of every operator with every threshold it reads, on every metric.
RuleSet ==
    { Rule("", m, op, PyNone, PyNone, PyNone, 2, FALSE) :
        m \in Metrics, op \in {"EXISTS", "MISSING"} \cup OtherOps }
    \cup
    { Rule("", m, op, PyNone, PyNone, x, 2, FALSE) :
        m \in Metrics, op \in {"EQ", "NE"} \cup CompareOps, x \in ExactValues }
    \cup
    { Rule("", m, op, lo, hi, PyNone, 2, FALSE) :
        m \in Metrics, op \in RangeOps, lo \in BoundValues, hi \in BoundValues }

\* The rules of the longer lists.
BasicRules ==
    { Rule("", "flag", "EXISTS", PyNone, PyNone, PyNone, 1, FALSE),
      Rule("", "five", "EXISTS", PyNone, PyNone, PyNone, BigWeight, TRUE),
      Rule("", "five", "GTE", PyNone, PyNone, PyNum(5), 2, FALSE),
      Rule("", "none", "MISSING", PyNone, PyNone, PyNone, 1, TRUE),
      Rule("", "unsupported", "EXISTS", PyNone, PyNone, PyNone, 1, FALSE),
      Rule("", "five", "LT", PyNone, PyNone, PyStr(<<"a", "b", "c">>), 1, FALSE),
      Rule("", "flag", "FOO", PyNone, PyNone, PyNone, 1, FALSE) }

\* The rule lists of the model: up to MaxRules basic rules, or one rule of RuleSet.
RuleLists ==
    { [k \in 1..Len(s) |-> WithId(s[k], k)] :
        s \in UNION { [1..n -> BasicRules] : n \in 0..MaxRules }
                \cup { <<r>> : r \in RuleSet } }

(***************************************************************************)
(* evaluate_rules: the operators.                                          *)
(***************************************************************************)
\* The outcome of evaluating a rule's operator: matched, or an exception.
Matched(m) == [raised |-> FALSE, exc |-> "", matched |-> m]
Raised(e) == [raised |-> TRUE, exc |-> e, matched |-> FALSE]

TruthyZero(v) ==
    CASE v.t = "none" -> FALSE
      [] v.t = "bool" -> v.b
      [] v.t = "num" -> TRUE
      [] v.t = "str" -> Len(v.s) > 0
      [] OTHER -> v.n > 0

\* bool(metric_value)
Truthy(v) ==
    CASE v.t = "none" -> FALSE
      [] v.t = "bool" -> v.b
      [] v.t = "num" -> v.n # 0
      [] v.t = "str" -> Len(v.s) > 0
      [] OTHER -> v.n > 0

BoolTargetExactCase(target) ==
    IF target.t = "str" /\ target.s \in {<<"T", "R", "U", "E">>, <<"F", "A", "L", "S", "E">>}
    THEN PyBool(target.s = <<"T", "R", "U", "E">>)
    ELSE target

\* EQ / NE: "handle boolean strings"
BoolTarget(target) ==
    IF target.t = "str"
    THEN LET t == StrUpper(StrStrip(target.s))
         IN  IF t \in {<<"T", "R", "U", "E">>, <<"F", "A", "L", "S", "E">>}
             THEN PyBool(t = <<"T", "R", "U", "E">>)
             ELSE target
    ELSE target

EvalEQ(rule, metric_value) == Matched(PyEq(metric_value, BoolTarget(rule.value_exact)))

EvalNE(rule, metric_value) == Matched(~PyEq(metric_value, BoolTarget(rule.value_exact)))

\* LT, LTE, GT, GTE
EvalCompare(rule, metric_value) ==
    LET f == PyFloat(metric_value)
        mv == IF f.raised THEN PyNone ELSE f.v
    IN  IF IsNone(mv) \/ IsNone(rule.value_exact) THEN Matched(FALSE)
        ELSE LET thr == PyFloat(rule.value_exact)
             IN  IF thr.raised THEN Raised(thr.exc)
                 ELSE CASE rule.operator = "LT" -> Matched(mv.n < thr.v.n)
                        [] rule.operator = "LTE" -> Matched(mv.n <= thr.v.n)
                        [] rule.operator = "GT" -> Matched(mv.n > thr.v.n)
                        [] OTHER -> Matched(mv.n >= thr.v.n)

EvalRangeExclusive(rule, metric_value) ==
    Matched(/\ (IsNone(rule.value_low) \/ (IsNumeric(metric_value)
                    /\ NumOf(metric_value) > NumOf(rule.value_low)))
            /\ (IsNone(rule.value_high) \/ (IsNumeric(metric_value)
                    /\ NumOf(metric_value) < NumOf(rule.value_high))))

\* RANGE, BETWEEN
EvalRange(rule, metric_value) ==
    LET low == IF IsNone(rule.value_low) THEN Ret(PyBool(TRUE))
               ELSE IF IsNone(metric_value) THEN Ret(PyBool(FALSE))
               ELSE PyGE(metric_value, rule.value_low)
        high == IF IsNone(rule.value_high) THEN Ret(PyBool(TRUE))
                ELSE IF IsNone(metric_value) THEN Ret(PyBool(FALSE))
                ELSE PyLE(metric_value, rule.value_high)
    IN  IF low.raised THEN Raised(low.exc)
        ELSE IF high.raised THEN Raised(high.exc)
        ELSE Matched(low.v.b /\ high.v.b)

EvalOtherMatches(rule, metric_value) == Matched(Truthy(metric_value))

\* the final else branch: an operator that is not recognised
EvalOther(rule, metric_value) == Matched(FALSE)

\* The if / elif chain on rule.operator.
EvalOperator(rule, metric_value) ==
    CASE rule.operator = "EXISTS" -> Matched(Truthy(metric_value))
      [] rule.operator = "MISSING" -> Matched(~Truthy(metric_value))
      [] rule.operator = "EQ" -> EvalEQ(rule, metric_value)
      [] rule.operator = "NE" -> EvalNE(rule, metric_value)
      [] rule.operator \in CompareOps -> EvalCompare(rule, metric_value)
      [] rule.operator \in RangeOps -> EvalRange(rule, metric_value)
      [] OTHER -> EvalOther(rule, metric_value)

AppliedAlways(rule, matched) == rule.weight

AppliedUnlessGate(rule, matched) == IF matched /\ ~rule.is_gate THEN rule.weight ELSE 0

\* applied = rule.weight if matched else 0.0
Applied(rule, matched) == IF matched THEN rule.weight ELSE 0

ErrorEntryKeepsWeight(rule, e) ==
    [id |-> rule.id, metric |-> rule.metric, matched |-> FALSE,
     weight_applied |-> rule.weight, metric_value |-> PyNone,
     error |-> TRUE, exception_type |-> e]

\* the log entry of a rule whose get_metric raised e
ErrorEntry(rule, e) ==
    [id |-> rule.id, metric |-> rule.metric, matched |-> FALSE,
     weight_applied |-> 0, metric_value |-> PyNone,
     error |-> TRUE, exception_type |-> e]

\* the log entry of a rule that was evaluated
LogEntry(rule, metric_value, matched, applied) ==
    [id |-> rule.id, metric |-> rule.metric, operator |-> rule.operator,
     thresholds |-> [value_low |-> rule.value_low, value_high |-> rule.value_high,
                     value_exact |-> rule.value_exact],
     metric_value |-> metric_value, matched |-> matched,
     weight_applied |-> applied, is_gate |-> rule.is_gate]

IsErrorEntry(e) == "error" \in DOMAIN e

(***************************************************************************)
(* evaluate_rules as a function: the loop over the rules, from the state   *)
(* st = [pc, exc, score, log] reached so far.                              *)
(***************************************************************************)
\* One iteration of "for rule in rules".
LoopBody(p, rule, st) ==
    LET got == GetMetric(p, rule)
        res == EvalOperator(rule, got.v)
        applied == Applied(rule, res.matched)
    IN  IF got.raised
        THEN [st EXCEPT !.log = Append(st.log, ErrorEntry(rule, got.exc))]
        ELSE IF res.raised
        THEN [st EXCEPT !.pc = "raised", !.exc = res.exc]
        ELSE [st EXCEPT !.score = FAdd(st.score, applied),
                        !.log = Append(st.log, LogEntry(rule, got.v, res.matched, applied))]

RECURSIVE EvaluateFrom(_, _, _)
EvaluateFrom(p, rs, st) ==
    IF st.pc = "raised" THEN st
    ELSE IF rs = <<>> THEN [st EXCEPT !.pc = "returned"]
    ELSE EvaluateFrom(p, Tail(rs), LoopBody(p, Head(rs), st))

\* evaluate_rules(provider, rules)
EvaluateRules(p, rs) ==
    EvaluateFrom(p, rs, [pc |-> "loop", exc |-> "", score |-> 0, log |-> <<>>])

(***************************************************************************)
(* evaluate_rules as a process.                                            *)
(***************************************************************************)
\* evaluate_business_rules is not running
BrIdle ==
    /\ atomic_log = <<>>
    /\ br_options = <<>>
    /\ matched_atomic_ids = {}
    /\ groups = <<>>
    /\ gidx = 1
    /\ chosen = PyNone
    /\ business_score = 0
    /\ business_log = <<>>

\* _load_csv_rows_dynamic is not running
LdIdle ==
    /\ environ = <<>>
    /\ s3 = <<>>
    /\ sheets = <<>>
    /\ files = <<>>
    /\ now = 0
    /\ call = <<>>
    /\ result = NoRows
    /\ io = <<>>

\* no run over the providers is in progress
RunIdle ==
    /\ provider_payloads = <<>>
    /\ pidx = 1
    /\ total_score = 0
    /\ all_provider_results = <<>>
    /\ entry = ""

\* there are no workers
ParIdle ==
    /\ suspended = <<>>
    /\ history = <<>>
    /\ snapshot = <<>>

Init ==
    /\ provider \in Providers
    /\ rules \in RuleLists
    /\ idx = 1
    /\ score = 0
    /\ log = <<>>
    /\ exc = ""
    /\ pc = "loop"
    /\ BrIdle
    /\ LdIdle
    /\ RunIdle
    /\ ParIdle

InLoop == pc = "loop" /\ idx <= Len(rules)

\* get_metric raises: the except branch logs the rule and continues.
GetMetricRaises ==
    /\ InLoop
    /\ GetMetric(provider, rules[idx]).raised
    /\ log' = Append(log, ErrorEntry(rules[idx], GetMetric(provider, rules[idx]).exc))
    /\ idx' = idx + 1
    /\ UNCHANGED <<runVars, parVars, provider, rules, score, exc, pc, brVars, ldVars>>

\* get_metric returns and the operator is evaluated.
EvalRule ==
    /\ InLoop
    /\ ~GetMetric(provider, rules[idx]).raised
    /\ LET rule == rules[idx]
           metric_value == GetMetric(provider, rule).v
           res == EvalOperator(rule, metric_value)
           applied == Applied(rule, res.matched)
       IN  /\ ~res.raised
           /\ score' = FAdd(score, applied)
           /\ log' = Append(log, LogEntry(rule, metric_value, res.matched, applied))
    /\ idx' = idx + 1
    /\ UNCHANGED <<runVars, parVars, provider, rules, exc, pc, brVars, ldVars>>

\* get_metric returns and the evaluation of the operator raises: nothing in
\* evaluate_rules catches it.
EvalRaises ==
    /\ InLoop
    /\ ~GetMetric(provider, rules[idx]).raised
    /\ LET res == EvalOperator(rules[idx], GetMetric(provider, rules[idx]).v)
       IN  /\ res.raised
           /\ exc' = res.exc
    /\ pc' = "raised"
    /\ UNCHANGED <<runVars, parVars, provider, rules, idx, score, log, brVars, ldVars>>

\* return score, log
Return ==
    /\ pc = "loop"
    /\ idx > Len(rules)
    /\ pc' = "returned"
    /\ UNCHANGED <<runVars, parVars, provider, rules, idx, score, log, exc, brVars, ldVars>>

Next == GetMetricRaises \/ EvalRule \/ EvalRaises \/ Return

Spec == Init /\ [][Next]_vars

(***************************************************************************)
(* Properties of evaluate_rules.                                           *)
(*                                                                         *)
(* While the loop runs, log[k] is the entry of rules[k]: every iteration   *)
(* that does not raise appends one entry.                                  *)
(***************************************************************************)
\* the rule being evaluated, and the outcome of its get_metric call
CurrentRule == rules[idx]
CurrentMetric == GetMetric(provider, rules[idx])

\* the entries of the log whose rule has an operator of ops
EntriesOf(ops) ==
    { k \in 1..Len(log) : ~IsErrorEntry(log[k]) /\ log[k].operator \in ops }

\* the evaluation has been aborted by an exception at a rule with an operator of ops
AbortedAt(ops) == pc = "raised" /\ rules[idx].operator \in ops

C2_ReturnsOneEntryPerRule ==
    /\ pc # "raised"
    /\ pc = "returned" =>
          /\ Len(log) = Len(rules)
          /\ \A k \in 1..Len(rules) : log[k].id = rules[k].id

\* the metric value coerced by float(), where that succeeds
Coercible(v) == ~PyFloat(v).raised
Coerced(v) == PyFloat(v).v.n

\* C3: the evaluation of an LT, LTE, GT or GTE rule never raises; the rule
\* does not match if the metric value cannot be coerced to a number or
\* value_exact is null, and otherwise matches iff the coerced metric value is
\* <, <=, > or >= value_exact.
C3_CompareNeverRaises ==
    /\ ~AbortedAt(CompareOps)
    /\ \A k \in EntriesOf(CompareOps) :
          LET mv == log[k].metric_value
              x == rules[k].value_exact
              op == rules[k].operator
          IN  log[k].matched =
                  /\ Coercible(mv)
                  /\ ~IsNone(x)
                  /\ IsNumeric(x)
                  /\ CASE op = "LT" -> Coerced(mv) < NumOf(x)
                       [] op = "LTE" -> Coerced(mv) <= NumOf(x)
                       [] op = "GT" -> Coerced(mv) > NumOf(x)
                       [] OTHER -> Coerced(mv) >= NumOf(x)

\* "value is at least low" and "value is at most high" of the RANGE rule: a
\* value that is not a number is on neither side of a bound
AtLeast(v, low) == IsNumeric(v) /\ NumOf(v) >= NumOf(low)
AtMost(v, high) == IsNumeric(v) /\ NumOf(v) <= NumOf(high)
InRange(rule, v) ==
    /\ IsNone(rule.value_low) \/ AtLeast(v, rule.value_low)
    /\ IsNone(rule.value_high) \/ AtMost(v, rule.value_high)

\* C4: a RANGE or BETWEEN rule matches iff (value_low is unset or metric >=
\* value_low) and (value_high is unset or metric <= value_high): the bounds
\* are inclusive, a null metric never matches when a bound is set, and with
\* both bounds unset every metric value matches.  (Where the comparison of a
\* non-number with a bound aborts the evaluation, the rule has not matched and
\* the condition does not hold either.)
C4_RangeMatchesIffWithinBounds ==
    /\ \A k \in EntriesOf(RangeOps) :
          /\ log[k].matched = InRange(rules[k], log[k].metric_value)
          /\ (IsNone(log[k].metric_value)
                /\ ~(IsNone(rules[k].value_low) /\ IsNone(rules[k].value_high)))
                => ~log[k].matched
          /\ (IsNone(rules[k].value_low) /\ IsNone(rules[k].value_high))
                => log[k].matched
    /\ AbortedAt(RangeOps) => ~InRange(CurrentRule, CurrentMetric.v)
    /\ \A k \in 1..Len(log) :
          (~IsErrorEntry(log[k]) /\ log[k].operator \in RangeOps) =>
              log[k].matched =
                  EvalOperator([rules[k] EXCEPT !.operator =
                                    IF @ = "RANGE" THEN "BETWEEN" ELSE "RANGE"],
                               log[k].metric_value).matched

\* A RANGE rule whose metric equals its upper bound, and is above its lower
\* bound, has matched.
C4_Witness ==
    \E k \in EntriesOf(RangeOps) :
        /\ log[k].matched
        /\ log[k].metric_value = PyNum(5)
        /\ rules[k].value_high = PyNum(5)
        /\ rules[k].value_low = PyNum(1)

\* truthy as the specification defines it: not null, not zero, not the empty
\* string or collection, not false
SpecTruthy(v) ==
    /\ v # PyNone
    /\ v # PyNum(0)
    /\ v # PyStr(<<>>)
    /\ v # PyList(0)
    /\ v # PyBool(FALSE)

\* C5: for every metric value returned without error, an EXISTS rule matches
\* iff the value is truthy and a MISSING rule on the same value matches iff the
\* EXISTS rule does not.
C5_ExistsIffTruthy ==
    \A k \in EntriesOf({"EXISTS", "MISSING"}) :
        LET mv == log[k].metric_value
            exists == EvalOperator([rules[k] EXCEPT !.operator = "EXISTS"], mv)
            missing == EvalOperator([rules[k] EXCEPT !.operator = "MISSING"], mv)
        IN  /\ log[k].matched = IF rules[k].operator = "EXISTS" THEN SpecTruthy(mv)
                                ELSE ~SpecTruthy(mv)
            /\ ~exists.raised /\ ~missing.raised
            /\ exists.matched = SpecTruthy(mv)
            /\ missing.matched = ~exists.matched

\* An EXISTS rule on the metric value 0 has not matched.
C5_Witness ==
    \E k \in EntriesOf({"EXISTS"}) :
        log[k].metric_value = PyNum(0) /\ ~log[k].matched

\* the target of EQ and NE as the claim states it: value_exact, a string equal
\* to TRUE or FALSE replaced by the boolean
C6_StatedTarget(x) ==
    IF x = PyStr(<<"T", "R", "U", "E">>) THEN PyBool(TRUE)
    ELSE IF x = PyStr(<<"F", "A", "L", "S", "E">>) THEN PyBool(FALSE)
    ELSE x

\* the target as amended: a string that equals TRUE or FALSE once its
\* surrounding whitespace is removed and it is upper-cased
C6_AmendedTarget(x) ==
    IF x.t = "str" /\ StrUpper(StrStrip(x.s)) = <<"T", "R", "U", "E">> THEN PyBool(TRUE)
    ELSE IF x.t = "str" /\ StrUpper(StrStrip(x.s)) = <<"F", "A", "L", "S", "E">>
    THEN PyBool(FALSE)
    ELSE x

\* C6 as stated: EQ decides metric == target and NE decides metric != target,
\* where only a value_exact equal to the string TRUE or FALSE is replaced by
\* the boolean; EQ and NE give opposite decisions.
C6_EqNeAgainstStatedTarget ==
    \A k \in EntriesOf({"EQ", "NE"}) :
        log[k].matched =
            IF rules[k].operator = "EQ"
            THEN PyEq(log[k].metric_value, C6_StatedTarget(rules[k].value_exact))
            ELSE ~PyEq(log[k].metric_value, C6_StatedTarget(rules[k].value_exact))

\* C6 as amended: EQ decides metric == target and NE decides metric != target,
\* where a string value_exact that equals TRUE or FALSE after stripping
\* surrounding whitespace and upper-casing is replaced by the boolean; on the
\* same metric value and value_exact, EQ and NE give opposite decisions.
C6_EqNeAgainstNormalisedTarget ==
    /\ ~AbortedAt({"EQ", "NE"})
    /\ \A k \in EntriesOf({"EQ", "NE"}) :
          LET mv == log[k].metric_value
              eq == EvalOperator([rules[k] EXCEPT !.operator = "EQ"], mv)
              ne == EvalOperator([rules[k] EXCEPT !.operator = "NE"], mv)
          IN  /\ log[k].matched =
                    IF rules[k].operator = "EQ"
                    THEN PyEq(mv, C6_AmendedTarget(rules[k].value_exact))
                    ELSE ~PyEq(mv, C6_AmendedTarget(rules[k].value_exact))
              /\ ~eq.raised /\ ~ne.raised
              /\ eq.matched = ~ne.matched

\* An EQ rule whose value_exact is the string " false" has matched the metric
\* value False.
C6_Witness ==
    \E k \in EntriesOf({"EQ"}) :
        /\ rules[k].value_exact = PyStr(<<" ", "f", "a", "l", "s", "e">>)
        /\ log[k].metric_value = PyBool(FALSE)
        /\ log[k].matched

\* C7: a rule whose operator is not one of the ten recognised ones never
\* matches: the step that evaluates it appends an entry with matched = false
\* and weight_applied = 0 and leaves the total unchanged.
C7_UnknownOperatorNeverMatches ==
    [][ (InLoop /\ CurrentRule.operator \notin KnownOps) =>
            /\ Len(log') = Len(log) + 1
            /\ log'[Len(log')].id = CurrentRule.id
            /\ log'[Len(log')].matched = FALSE
            /\ log'[Len(log')].weight_applied = 0
            /\ score' = score
            /\ pc' = "loop" ]_vars

\* A rule with an unknown operator was evaluated on a truthy metric value
\* after another rule had added its weight to the total.
C7_Witness ==
    /\ score > 0
    /\ \E k \in EntriesOf(OtherOps) :
          /\ k > 1
          /\ Truthy(log[k].metric_value)
          /\ rules[k].weight > 0

\* C8: in every log entry weight_applied is the rule's weight when matched is
\* true and 0 when matched is false.
C8_WeightAppliedIsWeightOrZero ==
    \A k \in 1..Len(log) :
        log[k].weight_applied = IF log[k].matched THEN rules[k].weight ELSE 0

\* A log with a matched entry of positive weight, an unmatched entry of a rule
\* of positive weight, and an error entry.
C8_Witness ==
    /\ \E k \in 1..Len(log) : log[k].matched /\ log[k].weight_applied > 0
    /\ \E k \in 1..Len(log) :
          ~IsErrorEntry(log[k]) /\ ~log[k].matched /\ rules[k].weight > 0
    /\ \E k \in 1..Len(log) : IsErrorEntry(log[k])

\* the rule list (or log) s in the order f, a permutation of its positions
Permuted(s, f) == [k \in 1..Len(s) |-> s[f[k]]]

\* weight_applied of the entries of a log, in order
WeightsOf(lg) == [k \in 1..Len(lg) |-> lg[k].weight_applied]

RECURSIVE ExactSum(_)
\* the sum of the numbers of w, as real numbers add
ExactSum(w) == IF w = <<>> THEN 0 ELSE ExactSum(SubSeq(w, 1, Len(w) - 1)) + w[Len(w)]

RECURSIVE FloatSum(_)
\* the sum of the floats of w, added left to right from 0.0 in floating point
FloatSum(w) ==
    IF w = <<>> THEN 0 ELSE Round(FloatSum(SubSeq(w, 1, Len(w) - 1)) + w[Len(w)])

\* no partial sum of w, added left to right, needs rounding
NoRounding(w) == \A k \in 1..Len(w) : Round(ExactSum(SubSeq(w, 1, k))) = ExactSum(SubSeq(w, 1, k))

\* C9 as stated: the returned total equals the sum of weight_applied over the
\* log and is the same for every permutation of the input rule sequence.
C9_TotalSameForEveryPermutation ==
    pc = "returned" =>
        /\ score = FloatSum(WeightsOf(log))
        /\ \A f \in Permutations(1..Len(rules)) :
              EvaluateRules(provider, Permuted(rules, f)).score = score

\* C9 as amended: the returned total is the sum of weight_applied over the log
\* added left to right in floating point; on every permutation of the input
\* evaluate_rules returns the same log entries, in the permuted order; and the
\* total is the exact sum, and the same for the permutation, whenever no
\* partial sum needs rounding in either order.
C9_TotalSameWhenNoRounding ==
    pc = "returned" =>
        /\ score = FloatSum(WeightsOf(log))
        /\ NoRounding(WeightsOf(log)) => score = ExactSum(WeightsOf(log))
        /\ \A f \in Permutations(1..Len(rules)) :
              LET r == EvaluateRules(provider, Permuted(rules, f))
              IN  /\ r.pc = "returned"
                  /\ r.log = Permuted(log, f)
                  /\ (NoRounding(WeightsOf(log)) /\ NoRounding(WeightsOf(r.log)))
                        => r.score = score

\* A run of three matched rules with different weights that returned a
\* positive total without rounding.
C9_Witness ==
    /\ pc = "returned"
    /\ Len(log) = 3
    /\ \A k \in 1..3 : log[k].matched
    /\ log[1].weight_applied # log[2].weight_applied
    /\ NoRounding(WeightsOf(log))
    /\ score = ExactSum(WeightsOf(log))

(***************************************************************************)
(* evaluate_business_rules.                                                *)
(***************************************************************************)
BusinessRuleOption(group_id, priority, likert_value, all_of, any_of, none_of, weight) ==
    [group_id |-> group_id, priority |-> priority, likert_value |-> likert_value,
     all_of |-> all_of, any_of |-> any_of, none_of |-> none_of, weight |-> weight]

\* the elements of a list
Elems(s) == { s[k] : k \in 1..Len(s) }

\* matched_atomic_ids = {str(entry.get("id")) for entry in atomic_log if entry.get("matched")}
\* (the ids of the model are strings, which str() returns as they are)
MatchedAtomicIds(alog) == { alog[k].id : k \in { j \in 1..Len(alog) : alog[j].matched } }

OptionSatisfiedIgnoresNoneOf(opt, matched) ==
    /\ opt.all_of # <<>> => \A rule_id \in Elems(opt.all_of) : rule_id \in matched
    /\ opt.any_of # <<>> => \E rule_id \in Elems(opt.any_of) : rule_id \in matched

\* option_satisfied(opt), with matched the set matched_atomic_ids
OptionSatisfied(opt, matched) ==
    IF opt.all_of # <<>> /\ ~(\A rule_id \in Elems(opt.all_of) : rule_id \in matched)
    THEN FALSE
    ELSE IF opt.any_of # <<>> /\ ~(\E rule_id \in Elems(opt.any_of) : rule_id \in matched)
    THEN FALSE
    ELSE IF opt.none_of # <<>> /\ (\E rule_id \in Elems(opt.none_of) : rule_id \in matched)
    THEN FALSE
    ELSE TRUE

GroupIdOfEveryOption(opts) == [k \in 1..Len(opts) |-> opts[k].group_id]

RECURSIVE GroupIds(_)
\* the keys of groups, in the order setdefault inserts them
GroupIds(opts) ==
    IF opts = <<>> THEN <<>>
    ELSE LET before == GroupIds(SubSeq(opts, 1, Len(opts) - 1))
             g == opts[Len(opts)].group_id
         IN  IF g \in Elems(before) THEN before ELSE Append(before, g)

IsInGroup(opt, g) == opt.group_id = g

\* groups: for each group id the options of the group, in input order
GroupsOf(opts) ==
    LET ids == GroupIds(opts)
    IN  [k \in 1..Len(ids) |->
            [group_id |-> ids[k],
             options |-> SelectSeq(opts, LAMBDA o : IsInGroup(o, ids[k]))]]

PriorityMissingIsLast(o) == IF IsNone(o.priority) THEN 9 ELSE o.priority.n

\* o.priority or 0
PriorityOrZero(o) == IF IsNone(o.priority) THEN 0 ELSE o.priority.n

SortKeyPriorityNotNegated(o) == <<o.likert_value, o.weight, PriorityOrZero(o)>>

\* the sort key (o.likert_value, o.weight, -(o.priority or 0))
SortKey(o) == <<o.likert_value, o.weight, 0 - PriorityOrZero(o)>>

\* a > b of two key tuples
KeyGreater(a, b) ==
    \/ a[1] > b[1]
    \/ a[1] = b[1] /\ a[2] > b[2]
    \/ a[1] = b[1] /\ a[2] = b[2] /\ a[3] > b[3]

SortKeepsInputOrder(s) == s

RECURSIVE SortReverseUnstable(_)
SortReverseUnstable(s) ==
    IF s = <<>> THEN <<>>
    ELSE LET init == SortReverseUnstable(SubSeq(s, 1, Len(s) - 1))
             o == s[Len(s)]
             n == Cardinality({ k \in 1..Len(init) : KeyGreater(SortKey(init[k]), SortKey(o)) })
         IN  SubSeq(init, 1, n) \o <<o>> \o SubSeq(init, n + 1, Len(init))

RECURSIVE SortReverse(_)
\* list.sort(key=..., reverse=True): descending by key; the sort is stable,
\* options with equal keys keep their order
SortReverse(s) ==
    IF s = <<>> THEN <<>>
    ELSE LET init == SortReverse(SubSeq(s, 1, Len(s) - 1))
             o == s[Len(s)]
             \* o goes after every option whose key is not smaller than its own
             n == Cardinality({ k \in 1..Len(init) : ~KeyGreater(SortKey(o), SortKey(init[k])) })
         IN  SubSeq(init, 1, n) \o <<o>> \o SubSeq(init, n + 1, Len(init))

SatisfiedOfEveryOption(options, matched) == SortReverse(options)

\* satisfied = [opt for opt in options if option_satisfied(opt)], then sorted
SatisfiedOf(options, matched) ==
    SortReverse(SelectSeq(options, LAMBDA o : OptionSatisfied(o, matched)))

\* chosen = None, or satisfied[0] of the sorted list when it is not empty
Chosen(satisfied) == IF satisfied = <<>> THEN PyNone ELSE satisfied[1]

\* the "chosen" field of a business log entry
ChosenField(o) ==
    [likert_value |-> o.likert_value, weight |-> o.weight,
     all_of |-> o.all_of, any_of |-> o.any_of, none_of |-> o.none_of]

\* the business log entry of a group
BusinessEntry(group, satisfied) ==
    [group_id |-> group.group_id,
     chosen |-> IF satisfied = <<>> THEN PyNone ELSE ChosenField(satisfied[1]),
     satisfied_options |->
        [k \in 1..Len(satisfied) |->
            [likert_value |-> satisfied[k].likert_value, weight |-> satisfied[k].weight]]]

\* the atomic log entries evaluate_business_rules reads: id and matched
AtomicLogs ==
    { <<[id |-> "r1", matched |-> a], [id |-> "r2", matched |-> b]>> :
        a \in BOOLEAN, b \in BOOLEAN }

\* ALL_OF, ANY_OF and NONE_OF lists; "r9" is the id of no atomic rule
IdLists == { <<>>, <<"r1">>, <<"r2">>, <<"r1", "r2">>, <<"r2", "r9">> }

\* One option with every combination of the three lists.
OptionSet ==
    { BusinessRuleOption("g1", PyNone, 3, a, b, c, 2) :
        a \in IdLists, b \in IdLists, c \in IdLists }

\* The options of the longer lists.
BasicOptions ==
    { BusinessRuleOption("g1", PyNone, 1, <<>>, <<>>, <<>>, 1),
      BusinessRuleOption("g1", PyNum(1), 3, <<>>, <<"r1">>, <<>>, 1),
      BusinessRuleOption("g1", PyNum(2), 3, <<>>, <<>>, <<"r2">>, 1),
      BusinessRuleOption("g1", PyNone, 3, <<"r1", "r2">>, <<>>, <<>>, 2),
      BusinessRuleOption("g1", PyNum(1), 3, <<>>, <<"r1", "r2">>, <<>>, 1),
      BusinessRuleOption("g2", PyNone, 1, <<"r1", "r2">>, <<>>, <<>>, 1),
      BusinessRuleOption("g2", PyNum(1), 3, <<>>, <<"r2">>, <<>>, BigWeight),
      BusinessRuleOption("g2", PyNone, 1, <<>>, <<>>, <<>>, 2),
      BusinessRuleOption("g1", PyNone, 3, <<>>, <<"r2">>, <<>>, 1),
      BusinessRuleOption("g1", PyNum(2), 5, <<>>, <<>>, <<"r1">>, 2) }

\* The option lists of the model: up to MaxOptions basic options, or one
\* option of OptionSet.
OptionLists ==
    UNION { [1..n -> BasicOptions] : n \in 0..MaxOptions }
        \cup { <<o>> : o \in OptionSet }

\* evaluate_rules is not running
RulesIdle ==
    /\ provider = ProviderOf(0)
    /\ rules = <<>>
    /\ idx = 1
    /\ score = 0
    /\ log = <<>>

InitBR ==
    /\ atomic_log \in AtomicLogs
    /\ br_options \in OptionLists
    /\ matched_atomic_ids = {}
    /\ groups = <<>>
    /\ gidx = 1
    /\ chosen = PyNone
    /\ business_score = 0
    /\ business_log = <<>>
    /\ exc = ""
    /\ pc = "br_start"
    /\ RulesIdle
    /\ LdIdle
    /\ RunIdle
    /\ ParIdle

\* if not br_options: return 0.0, []
BRNoOptions ==
    /\ pc = "br_start"
    /\ br_options = <<>>
    /\ pc' = "br_returned"
    /\ UNCHANGED <<runVars, parVars, ruleVars, brVars, ldVars, exc>>

\* the matched set and the groups are built
BRBegin ==
    /\ pc = "br_start"
    /\ br_options # <<>>
    /\ matched_atomic_ids' = MatchedAtomicIds(atomic_log)
    /\ groups' = GroupsOf(br_options)
    /\ pc' = "br_loop"
    /\ UNCHANGED <<runVars, parVars, ruleVars, ldVars, atomic_log, br_options, gidx, chosen,
                   business_score, business_log, exc>>

\* one iteration of "for group_id, options in groups.items()"
BRGroup ==
    /\ pc = "br_loop"
    /\ gidx <= Len(groups)
    /\ LET satisfied == SatisfiedOf(groups[gidx].options, matched_atomic_ids)
       IN  /\ chosen' = Chosen(satisfied)
           /\ business_log' = Append(business_log, BusinessEntry(groups[gidx], satisfied))
           /\ business_score' =
                 IF satisfied # <<>> THEN FAdd(business_score, satisfied[1].weight)
                 ELSE business_score
    /\ gidx' = gidx + 1
    /\ UNCHANGED <<runVars, parVars, ruleVars, ldVars, atomic_log, br_options, matched_atomic_ids, groups,
                   exc, pc>>

\* return business_score, business_log
BRReturn ==
    /\ pc = "br_loop"
    /\ gidx > Len(groups)
    /\ pc' = "br_returned"
    /\ UNCHANGED <<runVars, parVars, ruleVars, brVars, ldVars, exc>>

NextBR == BRNoOptions \/ BRBegin \/ BRGroup \/ BRReturn

SpecBR == InitBR /\ [][NextBR]_vars

(***************************************************************************)
(* Properties of evaluate_business_rules.                                  *)
(***************************************************************************)
\* the options of br_options that belong to group g
OptionsOfGroup(g) == SelectSeq(br_options, LAMBDA o : o.group_id = g)

\* the ids of the atomic log entries whose matched is true
C10_MatchedSet == { e.id : e \in { x \in Elems(atomic_log) : x.matched } }

\* the condition of the claim on an option
C10_Condition(opt) ==
    /\ opt.all_of = <<>> \/ \A i \in Elems(opt.all_of) : i \in C10_MatchedSet
    /\ opt.any_of = <<>> \/ \E i \in Elems(opt.any_of) : i \in C10_MatchedSet
    /\ opt.none_of = <<>> \/ \A i \in Elems(opt.none_of) : i \notin C10_MatchedSet

\* C10: with the matched set being the ids of the atomic log entries whose
\* matched is true, an option is satisfied iff (all_of is empty or all its ids
\* are matched) and (any_of is empty or one of its ids is matched) and
\* (none_of is empty or none of its ids is matched); an option whose three
\* lists are empty is satisfied.  Every group's log entry lists exactly the
\* options the condition holds for.
C10_SatisfiedIffCondition ==
    pc \in {"br_loop", "br_returned"} /\ br_options # <<>> =>
        /\ matched_atomic_ids = C10_MatchedSet
        /\ \A o \in Elems(br_options) :
              /\ OptionSatisfied(o, matched_atomic_ids) = C10_Condition(o)
              /\ (o.all_of = <<>> /\ o.any_of = <<>> /\ o.none_of = <<>>)
                    => OptionSatisfied(o, matched_atomic_ids)
        /\ \A k \in 1..Len(business_log) :
              LET opts == OptionsOfGroup(business_log[k].group_id)
              IN  /\ Len(business_log[k].satisfied_options) =
                        Cardinality({ j \in 1..Len(opts) : C10_Condition(opts[j]) })
                  /\ (business_log[k].chosen # PyNone) =
                        (\E j \in 1..Len(opts) : C10_Condition(opts[j]))

\* An option whose three lists are all non-empty was found satisfied and
\* chosen, with a matched set that is neither empty nor all ids.
C10_Witness ==
    /\ pc = "br_returned"
    /\ matched_atomic_ids = {"r1"}
    /\ \E k \in 1..Len(business_log) :
          /\ business_log[k].chosen # PyNone
          /\ business_log[k].chosen.all_of # <<>>
          /\ business_log[k].chosen.any_of # <<>>
          /\ business_log[k].chosen.none_of # <<>>

(***************************************************************************)
(* The winner of a group.                                                  *)
(***************************************************************************)
\* the positions, in the group of log entry k, of the options the condition
\* of C10 holds for
SatisfiedIn(k) ==
    LET opts == OptionsOfGroup(business_log[k].group_id)
    IN  { j \in 1..Len(opts) : C10_Condition(opts[j]) }

\* option o has the largest likert_value of the satisfied options of entry k
\* and, among those, the largest weight
BestLikertThenWeight(o, k) ==
    LET opts == OptionsOfGroup(business_log[k].group_id)
    IN  \A j \in SatisfiedIn(k) :
           \/ opts[j].likert_value < o.likert_value
           \/ opts[j].likert_value = o.likert_value /\ opts[j].weight <= o.weight

\* C11: for every group with a satisfied option, the chosen option is a
\* satisfied option of the group with the largest likert_value among the
\* satisfied options and, among those, the largest weight; an option that is
\* not satisfied is never the chosen one.
C11_ChosenIsBestSatisfied ==
    /\ \A k \in 1..Len(business_log) :
          LET opts == OptionsOfGroup(business_log[k].group_id)
          IN  SatisfiedIn(k) # {} =>
                 /\ business_log[k].chosen # PyNone
                 /\ \E j \in SatisfiedIn(k) :
                       /\ business_log[k].chosen = ChosenField(opts[j])
                       /\ BestLikertThenWeight(opts[j], k)
    /\ pc \in {"br_loop", "br_returned"} /\ gidx > 1 /\ chosen # PyNone =>
          LET k == gidx - 1
              opts == OptionsOfGroup(business_log[k].group_id)
          IN  /\ \E j \in SatisfiedIn(k) : opts[j] = chosen
              /\ BestLikertThenWeight(chosen, k)
              /\ business_log[k].chosen = ChosenField(chosen)

\* A group was decided in which a satisfied option with the winner's
\* likert_value and a smaller weight lost, and an option with a larger
\* likert_value that is not satisfied was passed over.
C11_Witness ==
    /\ pc = "br_returned"
    /\ chosen # PyNone
    /\ LET k == gidx - 1
           opts == OptionsOfGroup(business_log[k].group_id)
       IN  /\ \E j \in SatisfiedIn(k) :
                 /\ opts[j].likert_value = chosen.likert_value
                 /\ opts[j].weight < chosen.weight
           /\ \E j \in 1..Len(opts) :
                 /\ j \notin SatisfiedIn(k)
                 /\ opts[j].likert_value > chosen.likert_value

\* a group has just been decided and has a winner
GroupDecided == pc \in {"br_loop", "br_returned"} /\ gidx > 1 /\ chosen # PyNone

\* the satisfied options of the group just decided that tie with the winner
\* on likert_value and on weight
TiedWithChosen ==
    LET opts == OptionsOfGroup(business_log[gidx - 1].group_id)
    IN  { opts[j] : j \in { i \in SatisfiedIn(gidx - 1) :
                              /\ opts[i].likert_value = chosen.likert_value
                              /\ opts[i].weight = chosen.weight } }

\* C12 as stated: among the satisfied options that tie on likert_value and on
\* weight, the chosen option is the one with the higher priority.
C12_TieGoesToHigherPriority ==
    GroupDecided =>
        \A o \in TiedWithChosen : PriorityOrZero(chosen) >= PriorityOrZero(o)

\* C12: among the satisfied options that tie on likert_value and on weight,
\* an option is never chosen over one with a lower priority number: whenever
\* two of them have different priorities, the one with the higher number
\* is not the chosen option.
C12_TieNeverGoesToHigherPriority ==
    GroupDecided =>
        \A o \in TiedWithChosen :
            \A q \in TiedWithChosen :
                PriorityOrZero(q) > PriorityOrZero(o) => chosen # q

\* The winner of a group tied on likert_value and weight with a satisfied
\* option of a higher priority number, both priorities being present.
C12_Witness ==
    /\ GroupDecided
    /\ ~IsNone(chosen.priority)
    /\ \E o \in TiedWithChosen :
          ~IsNone(o.priority) /\ o.priority.n > chosen.priority.n

\* the priority number of the claim: the priority, or 0 when it is missing
C13_PriorityNumber(o) == IF o.priority = PyNone THEN 0 ELSE o.priority.n

\* C13: among the satisfied options that tie on likert_value and on weight,
\* the chosen option has the lowest priority number, a missing priority
\* counting as 0.
C13_TieGoesToLowestPriorityNumber ==
    GroupDecided =>
        /\ chosen \in TiedWithChosen
        /\ \A o \in TiedWithChosen : C13_PriorityNumber(chosen) <= C13_PriorityNumber(o)

\* An option without a priority won a tie against a satisfied option with a
\* positive priority.
C13_Witness ==
    /\ GroupDecided
    /\ IsNone(chosen.priority)
    /\ \E o \in TiedWithChosen : ~IsNone(o.priority) /\ o.priority.n > 0

\* the loop is about to decide a group none of whose options is satisfied
NextGroupUnsatisfied ==
    /\ pc = "br_loop"
    /\ gidx <= Len(groups)
    /\ \A o \in Elems(OptionsOfGroup(groups[gidx].group_id)) : ~C10_Condition(o)

\* C14: deciding a group none of whose options is satisfied appends a log
\* entry for the group whose chosen is null (and whose list of satisfied
\* options is empty) and leaves the business score as it was.
C14_UnsatisfiedGroupChoosesNothing ==
    [][NextGroupUnsatisfied =>
          /\ Len(business_log') = Len(business_log) + 1
          /\ business_log'[Len(business_log')].group_id = groups[gidx].group_id
          /\ business_log'[Len(business_log')].chosen = PyNone
          /\ business_log'[Len(business_log')].satisfied_options = <<>>
          /\ chosen' = PyNone
          /\ business_score' = business_score]_vars

\* The only option of the only group requires ALL_OF = [r1, r2], only r1 is
\* matched, and the evaluation returned with chosen null and score 0.
C14_Witness ==
    /\ pc = "br_returned"
    /\ Len(br_options) = 1
    /\ br_options[1].all_of = <<"r1", "r2">>
    /\ matched_atomic_ids = {"r1"}
    /\ Len(business_log) = 1
    /\ business_log[1].chosen = PyNone
    /\ business_score = 0

\* the weights of the chosen options of a business log, in log order
ChosenWeights(lg) ==
    LET won == SelectSeq(lg, LAMBDA e : e.chosen # PyNone)
    IN  [k \in 1..Len(won) |-> won[k].chosen.weight]

\* C15: evaluate_business_rules returns one log entry per distinct group_id
\* of the options, each with at most one chosen option (null, or one option
\* of that group), and the returned business score is the sum of the chosen
\* options' weights over the groups (added group by group in floating
\* point), whatever the number of options or of satisfied options of a group.
C15_OneEntryAndOneWinnerPerGroup ==
    pc = "br_returned" =>
        /\ Len(business_log) = Cardinality({ o.group_id : o \in Elems(br_options) })
        /\ { business_log[k].group_id : k \in 1..Len(business_log) } =
              { o.group_id : o \in Elems(br_options) }
        /\ \A k \in 1..Len(business_log) :
              \/ business_log[k].chosen = PyNone
              \/ \E o \in Elems(OptionsOfGroup(business_log[k].group_id)) :
                    business_log[k].chosen = ChosenField(o)
        /\ business_score = FloatSum(ChosenWeights(business_log))
        /\ NoRounding(ChosenWeights(business_log)) =>
              business_score = ExactSum(ChosenWeights(business_log))

\* Three options in two groups, two of them satisfied in the same group, and
\* both groups have a winner.
C15_Witness ==
    /\ pc = "br_returned"
    /\ Len(br_options) = 3
    /\ Len(business_log) = 2
    /\ \A k \in 1..2 : business_log[k].chosen # PyNone
    /\ \E k \in 1..2 : Len(business_log[k].satisfied_options) = 2
    /\ business_score = business_log[1].chosen.weight + business_log[2].chosen.weight

(***************************************************************************)
(* CSV text.  A text is a sequence of characters; _sheet_values_to_csv_text *)
(* writes it with csv.writer and _csv_string_to_dicts reads it with        *)
(* str.splitlines() and csv.DictReader.                                    *)
(***************************************************************************)
\* csv.writer, QUOTE_MINIMAL: a field is quoted when it holds the delimiter,
\* the quote character or a line terminator character
NeedsQuote(cell) == \E k \in 1..Len(cell) : cell[k] \in {",", "\"", "\r", "\n"}

RECURSIVE DoubleQuotes(_)
DoubleQuotes(cell) ==
    IF cell = <<>> THEN <<>>
    ELSE (IF Head(cell) = "\"" THEN <<"\"", "\"">> ELSE <<Head(cell)>>) \o DoubleQuotes(Tail(cell))

\* one field as csv.writer writes it; alone: it is the only field of its row
\* (a row of one empty field is written as "" to tell it from an empty row)
WriteCell(cell, alone) ==
    IF NeedsQuote(cell) \/ (alone /\ cell = <<>>)
    THEN <<"\"">> \o DoubleQuotes(cell) \o <<"\"">>
    ELSE cell

RECURSIVE JoinCells(_, _)
JoinCells(row, alone) ==
    IF row = <<>> THEN <<>>
    ELSE IF Len(row) = 1 THEN WriteCell(row[1], alone)
    ELSE WriteCell(row[1], FALSE) \o <<",">> \o JoinCells(Tail(row), FALSE)

\* writer.writerow(row): the fields joined by commas, then "\r\n"
WriteRow(row) == JoinCells(row, TRUE) \o <<"\r", "\n">>

RECURSIVE SheetValuesToCsvText(_)
\* _sheet_values_to_csv_text(values)
SheetValuesToCsvText(values) ==
    IF values = <<>> THEN <<>>
    ELSE WriteRow(Head(values)) \o SheetValuesToCsvText(Tail(values))

\* the elements of s at the positions of P, in order
AtPositions(s, P) ==
    [k \in 1..Cardinality(P) |-> s[CHOOSE p \in P : Cardinality({ q \in P : q <= p }) = k]]

\* the positions where a line of text ends: "\n", or "\r" not followed by "\n"
LineBreaks(text) ==
    { i \in 1..Len(text) :
         \/ text[i] = "\n"
         \/ text[i] = "\r" /\ ~(i < Len(text) /\ text[i + 1] = "\n") }

\* str.splitlines(): the lines without their terminators ("\r\n", "\n" or
\* "\r"); text after the last terminator is a line of its own
SplitLines(text) ==
    LET ends == LineBreaks(text) \cup (IF text # <<>> /\ Len(text) \notin LineBreaks(text)
                                       THEN {Len(text) + 1} ELSE {})
        EndOf(k) == CHOOSE p \in ends : Cardinality({ q \in ends : q <= p }) = k
        StartOf(k) == IF k = 1 THEN 1 ELSE EndOf(k - 1) + 1
        LastOf(k) ==
            LET p == EndOf(k)
            IN  IF p <= Len(text) /\ text[p] = "\n" /\ p > StartOf(k) /\ text[p - 1] = "\r"
                THEN p - 2 ELSE p - 1
    IN  [k \in 1..Cardinality(ends) |-> SubSeq(text, StartOf(k), LastOf(k))]

\* the position of the first comma of line at or after i, Len(line) + 1 when
\* there is none
NextComma(line, i) ==
    IF \E c \in i..Len(line) : line[c] = ","
    THEN CHOOSE c \in i..Len(line) : line[c] = "," /\ \A d \in i..(c - 1) : line[d] # ","
    ELSE Len(line) + 1

\* the quote characters of line in the positions a..b
QuotesIn(line, a, b) == { q \in a..b : line[q] = "\"" }

\* The field of line that starts at position i, and the position of the comma
\* that ends it.  A field that starts with a quote runs to its closing quote
\* (a quote that is not the first of a doubled pair), doubled quotes standing
\* for one; what follows the closing quote up to the comma is kept as it is.
\* In any other field a quote is an ordinary character.
FieldAt(line, i) ==
    IF i <= Len(line) /\ line[i] = "\""
    THEN LET closing == { j \in (i + 1)..Len(line) :
                            /\ line[j] = "\""
                            /\ Cardinality(QuotesIn(line, i + 1, j)) % 2 = 1
                            /\ (j = Len(line) \/ line[j + 1] # "\"") }
             j == IF closing = {} THEN Len(line) + 1
                  ELSE CHOOSE c \in closing : \A d \in closing : c <= d
             kept == { p \in (i + 1)..(j - 1) :
                         line[p] = "\"" => Cardinality(QuotesIn(line, i + 1, p)) % 2 = 1 }
             c == NextComma(line, j + 1)
         IN  [cell |-> AtPositions(line, kept) \o SubSeq(line, j + 1, c - 1), comma |-> c]
    ELSE [cell |-> SubSeq(line, i, NextComma(line, i) - 1), comma |-> NextComma(line, i)]

RECURSIVE ParseFrom(_, _)
\* the fields of line from position i on
ParseFrom(line, i) ==
    LET f == FieldAt(line, i)
    IN  <<f.cell>> \o (IF f.comma <= Len(line) THEN ParseFrom(line, f.comma + 1) ELSE <<>>)

\* one line as the csv reader returns it: a list of fields, [] for an empty
\* line (the fields of the model hold no line break)
ParseLine(line) == IF line = <<>> THEN <<>> ELSE ParseFrom(line, 1)

\* csv.reader(csv_text.splitlines())
CsvReader(text) == LET lines == SplitLines(text) IN [k \in 1..Len(lines) |-> ParseLine(lines[k])]

\* One row of csv.DictReader: cols maps every field name to its cell (the
\* last column of that name), None when the row is too short; extra holds
\* the cells beyond the field names (the value of the key None).
DictRow(fieldnames, row) ==
    [cols |-> [h \in Elems(fieldnames) |->
                  LET j == CHOOSE i \in 1..Len(fieldnames) :
                              /\ fieldnames[i] = h
                              /\ \A m \in 1..Len(fieldnames) : fieldnames[m] = h => m <= i
                  IN  IF j <= Len(row) THEN PyStr(row[j]) ELSE PyNone],
     extra |-> IF Len(row) > Len(fieldnames)
               THEN SubSeq(row, Len(fieldnames) + 1, Len(row)) ELSE <<>>]

\* _csv_string_to_dicts(csv_text): the first line gives the field names, the
\* empty lines after it are skipped
CsvStringToDicts(text) ==
    LET all == CsvReader(text)
    IN  IF all = <<>> THEN <<>>
        ELSE LET body == SelectSeq(Tail(all), LAMBDA r : r # <<>>)
             IN  [k \in 1..Len(body) |-> DictRow(Head(all), body[k])]

\* row.get(k)
RowGet(row, k) == IF k \in DOMAIN row.cols THEN row.cols[k] ELSE PyNone

\* (row.get(k) or "").strip()
StrippedCell(row, k) ==
    LET v == RowGet(row, k) IN IF IsNone(v) THEN <<>> ELSE StrStrip(v.s)

\* column names
ColId == <<"i", "d">>
ColCategory == <<"c", "a", "t", "e", "g", "o", "r", "y">>
ColLabel == <<"l", "a", "b", "e", "l">>
ColMetric == <<"m", "e", "t", "r", "i", "c">>
ColOperator == <<"o", "p", "e", "r", "a", "t", "o", "r">>
ColWeight == <<"w", "e", "i", "g", "h", "t">>
ColValueLow == <<"v", "a", "l", "u", "e", "_", "l", "o", "w">>
ColValueHigh == <<"v", "a", "l", "u", "e", "_", "h", "i", "g", "h">>
ColBusinessRuleLabel == <<"b", "u", "s", "i", "n", "e", "s", "s", "R", "u", "l", "e", "L", "a", "b", "e", "l">>
ColLikertValue == <<"l", "i", "k", "e", "r", "t", "_", "v", "a", "l", "u", "e">>

\* the spot check of the numeric columns: rows[:10], every cell that is not
\* blank must parse as a float
NumericCellsParse(rows, keys) ==
    \A n \in 1..(IF Len(rows) < 10 THEN Len(rows) ELSE 10) :
        \A k \in keys :
            StrippedCell(rows[n], k) = <<>> \/ ~StrToFloat(StrippedCell(rows[n], k)).raised

\* _validate_rules_rows(rows)
ValidateRulesRows(rows) ==
    /\ rows # <<>>
    /\ {ColId, ColCategory, ColLabel, ColMetric, ColOperator, ColWeight}
           \subseteq DOMAIN rows[1].cols
    /\ NumericCellsParse(rows, {ColValueLow, ColValueHigh, ColWeight})

\* _validate_business_rows(rows)
ValidateBusinessRows(rows) ==
    /\ rows # <<>>
    /\ {ColId, ColCategory, ColBusinessRuleLabel, ColLikertValue, ColWeight}
           \subseteq DOMAIN rows[1].cols
    /\ NumericCellsParse(rows, {ColLikertValue, ColWeight})

IsValidAlways(kind, rows) == TRUE

\* a validation that asks for rows and nothing else
IsValidWithRows(kind, rows) == rows # <<>>

\* is_valid = _validate_rules_rows(rows) if kind == "rules" else _validate_business_rows(rows)
IsValid(kind, rows) ==
    IF kind = "rules" THEN ValidateRulesRows(rows) ELSE ValidateBusinessRows(rows)

(***************************************************************************)
(* _load_csv_rows_dynamic: configuration.                                  *)
(***************************************************************************)
\* "86400", the default of RULES_CACHE_TTL_SECONDS
TtlDefault == 86400
TtlDefaultText == <<"8", "6", "4", "0", "0">>
\* "rules-engine-cache", the default of RULES_CACHE_PREFIX
PrefixDefault == <<"r", "u", "l", "e", "s", "-", "e", "n", "g", "i", "n", "e", "-", "c", "a", "c", "h", "e">>

\* _env(name, default)
Env(name, default) == IF IsNone(environ[name]) THEN default ELSE environ[name]

\* a or b
PyOr(a, b) == IF Truthy(a) THEN a ELSE b

SpreadsheetId == Env("RULES_SPREADSHEET_ID", PyNone)
ApiKey == Env("GOOGLE_SHEETS_API_KEY", PyNone)
Bucket == PyOr(Env("RULES_CACHE_BUCKET", PyNone), Env("REPO_ARCHIVES_BUCKET_NAME", PyNone))
Prefix == PyOr(Env("RULES_CACHE_PREFIX", PyStr(PrefixDefault)), PyStr(PrefixDefault))

\* ttl_seconds: int(ttl_seconds_str), or 86400 when the text is empty or not
\* an integer
TtlSeconds ==
    LET ttl_seconds_str == Env("RULES_CACHE_TTL_SECONDS", PyStr(TtlDefaultText))
    IN  IF Truthy(ttl_seconds_str) /\ ~StrToFloat(ttl_seconds_str.s).raised
        THEN StrToFloat(ttl_seconds_str.s).v.n
        ELSE TtlDefault

\* cache_key = f"{prefix}/{kind}_{provider_name}.csv"
CacheKey(prefix, kind, provider_name) == <<prefix.s, kind, provider_name>>

\* sheet_name = f"{sheet_prefix}{provider_name}"
SheetName(kind, provider_name) == <<IF kind = "rules" THEN "a-" ELSE "br-", provider_name>>

\* fallback_path of load_rules and of load_business_rules
FallbackPath(kind, provider_name) == <<IF kind = "rules" THEN "rules_" ELSE "br_", provider_name>>

RemoteConfiguredByIdAlone == Truthy(SpreadsheetId)

\* not (not spreadsheet_id or not api_key)
RemoteConfigured == Truthy(SpreadsheetId) /\ Truthy(ApiKey)

(***************************************************************************)
(* The object store, the remote sheet and the local file.                  *)
(***************************************************************************)
NoObject == [exists |-> FALSE, body |-> <<>>, last_modified |-> 0]
Object(body, last_modified) == [exists |-> TRUE, body |-> body, last_modified |-> last_modified]

\* One call the resolver made: op is head, read, write, put_object, fetch or
\* open.
Event(op, ok) == [op |-> op, ok |-> ok]

IsFreshInclusive(age, ttl_seconds) == age <= ttl_seconds

\* a cache object that is never taken as fresh
IsFreshNever(age, ttl_seconds) == FALSE

\* age < ttl_seconds
IsFresh(age, ttl_seconds) == age < ttl_seconds

ReadIgnoresGetFailure(bucket, key) ==
    IF s3.objects[key].exists THEN PyStr(s3.objects[key].body) ELSE PyNone

\* _read_cached_rules_from_s3(bucket, key): the text, or None when there is no
\* client, no bucket, or get_object fails
ReadCachedRulesFromS3(bucket, key) ==
    IF ~s3.client \/ ~Truthy(bucket) THEN PyNone
    ELSE IF s3.get_fails \/ ~s3.objects[key].exists THEN PyNone
    ELSE PyStr(s3.objects[key].body)

WriteOnlyWithClient(bucket, key, body) ==
    [s3 |-> IF s3.client /\ Truthy(bucket) /\ ~s3.put_fails
            THEN [s3 EXCEPT !.objects[key] = Object(body, now)] ELSE s3,
     io |-> IF s3.client /\ Truthy(bucket)
            THEN <<Event("write", ~s3.put_fails), Event("put_object", ~s3.put_fails)>>
            ELSE <<>>]

WriteRetriesPutObject(bucket, key, body) ==
    [s3 |-> IF s3.client /\ Truthy(bucket) /\ ~s3.put_fails
            THEN [s3 EXCEPT !.objects[key] = Object(body, now)] ELSE s3,
     io |-> <<Event("write", s3.client /\ Truthy(bucket) /\ ~s3.put_fails)>>
               \o (IF s3.client /\ Truthy(bucket)
                   THEN IF s3.put_fails
                        THEN <<Event("put_object", FALSE), Event("put_object", FALSE)>>
                        ELSE <<Event("put_object", TRUE)>>
                   ELSE <<>>)]

\* _write_cached_rules_to_s3(bucket, key, body): the store after the call and
\* the events of the call (the call itself, and the put_object request it
\* makes when there is a client); every failure is swallowed
WriteCachedRulesToS3(bucket, key, body) ==
    [s3 |-> IF s3.client /\ Truthy(bucket) /\ ~s3.put_fails
            THEN [s3 EXCEPT !.objects[key] = Object(body, now)] ELSE s3,
     io |-> <<Event("write", s3.client /\ Truthy(bucket) /\ ~s3.put_fails)>>
               \o (IF s3.client /\ Truthy(bucket)
                   THEN <<Event("put_object", ~s3.put_fails)>> ELSE <<>>)]

\* _fetch_sheet_values(spreadsheet_id, sheet_name, api_key): the values, or
\* None when the request fails or the sheet has no values
FetchSheetValues(sheet_name) ==
    IF sheets[sheet_name].ok /\ sheets[sheet_name].values # <<>>
    THEN Rows(sheets[sheet_name].values) ELSE NoRows

\* the local file read: None when the file does not exist
ReadLocal(path) ==
    IF files[path].exists THEN Rows(CsvStringToDicts(files[path].text)) ELSE NoRows

(***************************************************************************)
(* The tables of the model.                                                *)
(***************************************************************************)
Kinds == {"rules", "br"}

HeaderOf(kind) ==
    IF kind = "rules" THEN <<ColId, ColCategory, ColLabel, ColMetric, ColOperator, ColWeight>>
    ELSE <<ColId, ColCategory, ColBusinessRuleLabel, ColLikertValue, ColWeight>>

\* a row of a table of the kind, with the given label and weight cells
RowOf(kind, label, weight) ==
    IF kind = "rules" THEN <<<<"r", "1">>, <<"c">>, label, <<"m">>, <<"E", "Q">>, weight>>
    ELSE <<<<"g", "1">>, <<"c">>, label, <<"3">>, weight>>

\* sheet values: two valid tables, one with a weight that is not a number,
\* one without the weight column
SheetA(kind) == <<HeaderOf(kind), RowOf(kind, <<"l">>, <<"1">>)>>
SheetB(kind) == <<HeaderOf(kind), RowOf(kind, <<"a", ",", "b">>, <<"2">>), <<<<"r", "2">>>>>>
SheetBadNumber(kind) == <<HeaderOf(kind), RowOf(kind, <<"l">>, <<"x">>)>>
SheetNoWeight(kind) ==
    <<SubSeq(HeaderOf(kind), 1, Len(HeaderOf(kind)) - 1), SubSeq(RowOf(kind, <<"l">>, <<"1">>), 1, Len(HeaderOf(kind)) - 1)>>

\* the outcomes of the fetch of a sheet
SheetOutcomes(kind) ==
    { [ok |-> FALSE, values |-> <<>>] } \cup
    { [ok |-> TRUE, values |-> v] :
        v \in {SheetA(kind), SheetB(kind), SheetBadNumber(kind), SheetNoWeight(kind)} }

\* cache object bodies: empty, two valid tables, an invalid one, a header alone
CacheBodies(kind) ==
    { <<>>, SheetValuesToCsvText(SheetA(kind)), SheetValuesToCsvText(SheetB(kind)),
      SheetValuesToCsvText(SheetBadNumber(kind)), SheetValuesToCsvText(<<HeaderOf(kind)>>) }

\* ages of a cache object, in seconds
CacheAges == {1, 2, TtlDefault}

\* the text of a local file: the lines end with "\n"
LocalText(kind, weight) ==
    LET t == SheetValuesToCsvText(<<HeaderOf(kind), RowOf(kind, <<"l">>, weight)>>)
    IN  SelectSeq(t, LAMBDA c : c # "\r")

LocalFiles(kind) ==
    { [exists |-> FALSE, text |-> <<>>],
      [exists |-> TRUE, text |-> LocalText(kind, <<"3">>)],
      [exists |-> TRUE, text |-> LocalText(kind, <<"x">>)] }

ProviderNames == {"github"}

EnvNames ==
    {"RULES_SPREADSHEET_ID", "GOOGLE_SHEETS_API_KEY", "RULES_CACHE_BUCKET",
     "REPO_ARCHIVES_BUCKET_NAME", "RULES_CACHE_PREFIX", "RULES_CACHE_TTL_SECONDS"}

\* os.environ with the given values; RULES_CACHE_PREFIX is not set
Environ(sid, key, bucket, archives, ttl) ==
    [n \in EnvNames |->
        CASE n = "RULES_SPREADSHEET_ID" -> sid
          [] n = "GOOGLE_SHEETS_API_KEY" -> key
          [] n = "RULES_CACHE_BUCKET" -> bucket
          [] n = "REPO_ARCHIVES_BUCKET_NAME" -> archives
          [] n = "RULES_CACHE_TTL_SECONDS" -> ttl
          [] OTHER -> PyNone]

\* the clock at the start of a resolution
StartTime == 2 * TtlDefault

\* the other kind
OtherKind(kind) == IF kind = "rules" THEN "br" ELSE "rules"

\* The start of a resolution of one kind for the provider github: the cache
\* object, the sheet and the file of the other kind are absent.
Setup(kind, env, client, get_fails, put_fails, object, sheet, file) ==
    /\ environ = env
    /\ s3 = [client |-> client, get_fails |-> get_fails, put_fails |-> put_fails,
             objects |-> (CacheKey(PyStr(PrefixDefault), kind, "github") :> object)
                            @@ (CacheKey(PyStr(PrefixDefault), OtherKind(kind), "github") :> NoObject)]
    /\ sheets = (SheetName(kind, "github") :> sheet)
                   @@ (SheetName(OtherKind(kind), "github") :> [ok |-> FALSE, values |-> <<>>])
    /\ files = (FallbackPath(kind, "github") :> file)
                  @@ (FallbackPath(OtherKind(kind), "github") :> [exists |-> FALSE, text |-> <<>>])
    /\ call = [provider_name |-> "github", kind |-> kind,
               fallback_path |-> FallbackPath(kind, "github")]

CacheObjects(kind) ==
    {NoObject} \cup { Object(b, StartTime - a) : b \in CacheBodies(kind), a \in CacheAges }

\* Every store, sheet and file under a full configuration (spreadsheet id,
\* API key and bucket set; TTL unset or 2 seconds).
StoreSetups ==
    \E kind \in Kinds :
        \E ttl \in {PyNone, PyStr(<<"2">>)},
           client \in BOOLEAN, get_fails \in BOOLEAN, put_fails \in BOOLEAN,
           object \in CacheObjects(kind), sheet \in SheetOutcomes(kind), file \in LocalFiles(kind) :
            Setup(kind, Environ(PyStr(<<"s">>), PyStr(<<"k">>), PyStr(<<"b">>), PyNone, ttl),
                  client, get_fails, put_fails, object, sheet, file)

\* Every configuration over a few stores, sheets and files, with a working
\* object store.
ConfigSetups ==
    \E kind \in Kinds :
        \E sid \in {PyNone, PyStr(<<"s">>)}, key \in {PyStr(<<>>), PyStr(<<"k">>)},
           bucket \in {PyNone, PyStr(<<>>)}, archives \in {PyNone, PyStr(<<"b">>)},
           ttl \in {PyNone, PyStr(<<"2">>), PyStr(<<"a", "b", "c">>), PyStr(<<>>)},
           object \in {NoObject, Object(SheetValuesToCsvText(SheetA(kind)), StartTime - 1),
                       Object(SheetValuesToCsvText(SheetA(kind)), StartTime - TtlDefault)},
           sheet \in {[ok |-> FALSE, values |-> <<>>], [ok |-> TRUE, values |-> SheetB(kind)]},
           file \in {[exists |-> FALSE, text |-> <<>>], [exists |-> TRUE, text |-> LocalText(kind, <<"3">>)]} :
            Setup(kind, Environ(sid, key, bucket, archives, ttl), TRUE, FALSE, FALSE, object, sheet, file)

(***************************************************************************)
(* _load_csv_rows_dynamic as a process.                                    *)
(***************************************************************************)
InitLoad ==
    /\ StoreSetups \/ ConfigSetups
    /\ now = StartTime
    /\ result = NoRows
    /\ io = <<>>
    /\ exc = ""
    /\ pc = "ld_start"
    /\ RulesIdle
    /\ BrIdle
    /\ RunIdle
    /\ ParIdle

\* one cache object per kind for all the providers
CacheKeyWithoutProvider == CacheKey(Prefix, call.kind, "github")

cache_key == CacheKey(Prefix, call.kind, call.provider_name)

\* the return of the local file's rows, or of None
ReturnLocal ==
    /\ result' = ReadLocal(call.fallback_path)
    /\ io' = IF files[call.fallback_path].exists THEN Append(io, Event("open", TRUE)) ELSE io
    /\ pc' = "ld_returned"
    /\ UNCHANGED <<runVars, parVars, ruleVars, brVars, environ, s3, sheets, files, now, call, exc>>

\* 1) no dynamic config: the local file, or None
LoadNoDynamicConfig ==
    /\ pc = "ld_start"
    /\ ~RemoteConfigured
    /\ ReturnLocal

\* 2) the cache object, when it is younger than the TTL
LoadFreshCache ==
    /\ pc = "ld_start"
    /\ RemoteConfigured
    /\ LET tried == s3.client /\ Truthy(Bucket)
           head_ok == tried /\ s3.objects[cache_key].exists
           age == now - s3.objects[cache_key].last_modified
           fresh == head_ok /\ IsFresh(age, TtlSeconds)
           cached_text == IF fresh THEN ReadCachedRulesFromS3(Bucket, cache_key) ELSE PyNone
           events == (IF tried THEN <<Event("head", head_ok)>> ELSE <<>>)
                        \o (IF fresh THEN <<Event("read", ~IsNone(cached_text))>> ELSE <<>>)
       IN  /\ io' = io \o events
           /\ IF Truthy(cached_text)
              THEN /\ result' = Rows(CsvStringToDicts(cached_text.s))
                   /\ pc' = "ld_returned"
              ELSE /\ result' = result
                   /\ pc' = "ld_fetch"
    /\ UNCHANGED <<runVars, parVars, ruleVars, brVars, environ, s3, sheets, files, now, call, exc>>

\* 3) the fetch of the sheet, its validation, the cache write and the return
LoadFetchSheet ==
    /\ pc = "ld_fetch"
    /\ LET values == FetchSheetValues(SheetName(call.kind, call.provider_name))
           csv_text == SheetValuesToCsvText(values.rows)
           rows == CsvStringToDicts(csv_text)
           is_valid == ~values.none /\ IsValid(call.kind, rows)
           written == WriteCachedRulesToS3(Bucket, cache_key, csv_text)
       IN  /\ IF is_valid
              THEN /\ result' = Rows(rows)
                   /\ pc' = "ld_returned"
              ELSE /\ result' = result
                   /\ pc' = "ld_stale"
           /\ IF is_valid /\ Truthy(Bucket)
              THEN /\ s3' = written.s3
                   /\ io' = Append(io, Event("fetch", TRUE)) \o written.io
              ELSE /\ s3' = s3
                   /\ io' = Append(io, Event("fetch", ~values.none))
    /\ UNCHANGED <<runVars, parVars, ruleVars, brVars, environ, sheets, files, now, call, exc>>

\* 4) the cache object whatever its age, validated
LoadStaleCache ==
    /\ pc = "ld_stale"
    /\ LET cached_text == IF Truthy(Bucket) THEN ReadCachedRulesFromS3(Bucket, cache_key) ELSE PyNone
           rows == IF Truthy(cached_text) THEN CsvStringToDicts(cached_text.s) ELSE <<>>
           is_valid == Truthy(cached_text) /\ IsValid(call.kind, rows)
       IN  /\ io' = IF Truthy(Bucket) THEN Append(io, Event("read", ~IsNone(cached_text))) ELSE io
           /\ IF is_valid
              THEN /\ result' = Rows(rows)
                   /\ pc' = "ld_returned"
              ELSE /\ result' = result
                   /\ pc' = "ld_local"
    /\ UNCHANGED <<runVars, parVars, ruleVars, brVars, environ, s3, sheets, files, now, call, exc>>

\* 5) the local file, or None
LoadLocalFile ==
    /\ pc = "ld_local"
    /\ ReturnLocal

NextLoad ==
    LoadNoDynamicConfig \/ LoadFreshCache \/ LoadFetchSheet \/ LoadStaleCache \/ LoadLocalFile

SpecLoad == InitLoad /\ [][NextLoad]_vars

(***************************************************************************)
(* Properties of _load_csv_rows_dynamic.                                   *)
(***************************************************************************)
\* an environment variable is set to a non-empty value
IsSet(name) == environ[name] # PyNone /\ environ[name] # PyStr(<<>>)

\* a remote source is configured: spreadsheet id and API key are present
HasRemote == IsSet("RULES_SPREADSHEET_ID") /\ IsSet("GOOGLE_SHEETS_API_KEY")

\* a cache bucket is configured
HasBucket == IsSet("RULES_CACHE_BUCKET") \/ IsSet("REPO_ARCHIVES_BUCKET_NAME")

\* the cache object of the (kind, provider) pair of the call
CacheObject == s3.objects[<<PrefixDefault, call.kind, call.provider_name>>]

\* the cache object exists and can be read
CacheReadable == HasBucket /\ s3.client /\ ~s3.get_fails /\ CacheObject.exists

\* the rows of the cache object, of the local file and of the remote sheet
CachedRows == CsvStringToDicts(CacheObject.body)
LocalRows == CsvStringToDicts(files[call.fallback_path].text)
RemoteValues == sheets[SheetName(call.kind, call.provider_name)]
RemoteRows == CsvStringToDicts(SheetValuesToCsvText(RemoteValues.values))

\* the rows pass the schema validation of the kind of the call
PassesSchema(rows) ==
    IF call.kind = "rules" THEN ValidateRulesRows(rows) ELSE ValidateBusinessRows(rows)

\* the calls of the given kind made so far
Calls(events, op) == SelectSeq(events, LAMBDA e : e.op = op)

\* C16: with no remote source configured (spreadsheet id or API key absent)
\* and an existing local file, the resolver returns exactly the rows of the
\* local file, and the only call it makes is the read of that file: no head,
\* read or write of the object store, no remote fetch.
C16_LocalFileWithoutRemoteConfig ==
    pc = "ld_returned" /\ ~HasRemote /\ files[call.fallback_path].exists =>
        /\ result = Rows(LocalRows)
        /\ io = <<Event("open", TRUE)>>

\* The spreadsheet id is set but the API key is not, a bucket with a fresh
\* cache object and a reachable sheet exist, and the rows of the local file
\* were returned.
C16_Witness ==
    /\ pc = "ld_returned"
    /\ IsSet("RULES_SPREADSHEET_ID") /\ ~IsSet("GOOGLE_SHEETS_API_KEY")
    /\ CacheReadable /\ now - CacheObject.last_modified < TtlSeconds
    /\ RemoteValues.ok
    /\ result = Rows(LocalRows)
    /\ Len(result.rows) = 1
    /\ result.rows[1].cols[ColWeight] = PyStr(<<"3">>)

\* the age of the cache object
CacheAge == now - CacheObject.last_modified

\* C17 as stated: with a remote source configured and a cache object that
\* exists, is readable and is younger than the TTL, the resolver returns the
\* cached rows without a remote fetch; a cache object as old as the TTL or
\* older is not used as fresh.
C17_FreshCacheShortCircuits ==
    [][pc = "ld_start" /\ HasRemote =>
          /\ CacheReadable /\ CacheAge < TtlSeconds =>
                /\ pc' = "ld_returned"
                /\ result' = Rows(CachedRows)
                /\ Calls(io', "fetch") = <<>>
          /\ CacheAge >= TtlSeconds => pc' = "ld_fetch" /\ result' = result]_vars

\* C17: with a remote source configured and a cache object that exists, is
\* readable, is not empty and is younger than the TTL, the resolver returns
\* the cached rows without a remote fetch, whatever the remote sheet holds; a
\* cache object as old as the TTL or older is not used as fresh (the resolver
\* goes on to the remote fetch).
C17_FreshNonEmptyCacheShortCircuits ==
    [][pc = "ld_start" /\ HasRemote =>
          /\ CacheReadable /\ CacheAge < TtlSeconds /\ CacheObject.body # <<>> =>
                /\ pc' = "ld_returned"
                /\ result' = Rows(CachedRows)
                /\ Calls(io', "fetch") = <<>>
                /\ s3' = s3
          /\ CacheAge >= TtlSeconds => pc' = "ld_fetch" /\ result' = result]_vars

\* A fresh cache object was returned while the remote sheet holds other,
\* valid rows, and no fetch was made.
C17_Witness ==
    /\ pc = "ld_returned"
    /\ HasRemote /\ CacheReadable /\ CacheAge = TtlSeconds - 1
    /\ RemoteValues.ok /\ PassesSchema(RemoteRows) /\ RemoteRows # CachedRows
    /\ result = Rows(CachedRows)
    /\ CachedRows # <<>>
    /\ Calls(io, "fetch") = <<>>

\* C18: when no fresh cache is used and the remote fetch succeeds with rows
\* that pass the schema validation of the kind, the resolver returns those
\* rows and makes one cache write when a bucket is configured (none when it
\* is not), which sends one put_object request when the store client is
\* available; the rows returned do not depend on the outcome of the write.
C18_ValidRemoteRowsReturnedAndWrittenOnce ==
    [][pc = "ld_fetch" /\ RemoteValues.ok /\ RemoteValues.values # <<>> /\ PassesSchema(RemoteRows) =>
          /\ pc' = "ld_returned"
          /\ result' = Rows(RemoteRows)
          /\ Len(Calls(io', "write")) = (IF HasBucket THEN 1 ELSE 0)
          /\ Len(Calls(io', "put_object")) = (IF HasBucket /\ s3.client THEN 1 ELSE 0)
          /\ Len(Calls(io', "fetch")) = 1
          /\ \A k \in 1..Len(io') :
                io'[k].op = "write" /\ io'[k].ok =>
                    s3'.objects[<<PrefixDefault, call.kind, call.provider_name>>].body =
                        SheetValuesToCsvText(RemoteValues.values)]_vars

\* Valid remote rows were returned although the one cache write failed.
C18_Witness ==
    /\ pc = "ld_returned"
    /\ HasBucket
    /\ Calls(io, "write") = <<Event("write", FALSE)>>
    /\ s3.client /\ s3.put_fails
    /\ result = Rows(RemoteRows)
    /\ PassesSchema(RemoteRows)
    /\ Len(result.rows) = 2

\* C19: when the remote fetch fails or its rows fail the schema validation,
\* nothing is returned from or written for the remote rows and the resolver
\* turns to the cache object; an existing, readable cache object that passes
\* the schema validation is then returned whatever its age.
C19_StaleValidCacheAfterRemoteFailure ==
    [][/\ pc = "ld_fetch" /\ ~(RemoteValues.ok /\ RemoteValues.values # <<>> /\ PassesSchema(RemoteRows)) =>
             /\ pc' = "ld_stale"
             /\ result' = result
             /\ s3' = s3
             /\ Calls(io', "write") = <<>>
       /\ pc = "ld_stale" /\ CacheReadable /\ PassesSchema(CachedRows) =>
             /\ pc' = "ld_returned"
             /\ result' = Rows(CachedRows)
             /\ s3' = s3]_vars

\* The remote sheet was fetched and held invalid rows, and a cache object as
\* old as the TTL was returned, the invalid rows having not been written.
C19_Witness ==
    /\ pc = "ld_returned"
    /\ HasRemote
    /\ RemoteValues.ok /\ ~PassesSchema(RemoteRows)
    /\ CacheReadable /\ CacheAge >= TtlSeconds
    /\ Calls(io, "fetch") = <<Event("fetch", TRUE)>>
    /\ Calls(io, "write") = <<>>
    /\ result = Rows(CachedRows)
    /\ PassesSchema(CachedRows)

\* C20: with a remote source configured, when neither the remote fetch nor
\* the cache yields valid rows, the resolver returns the rows of the local
\* file if the file exists, and no rows only when the file is absent too.
C20_LocalFileWhenRemoteAndCacheInvalid ==
    /\ pc = "ld_returned"
    /\ HasRemote
    /\ ~(RemoteValues.ok /\ RemoteValues.values # <<>> /\ PassesSchema(RemoteRows))
    /\ ~(CacheReadable /\ PassesSchema(CachedRows))
    => /\ files[call.fallback_path].exists => result = Rows(LocalRows)
       /\ result.none <=> ~files[call.fallback_path].exists

\* the rows returned came from the remote sheet or from the cache object:
\* rows were returned and the local file was not opened
ReturnedFromRemoteOrCache ==
    pc = "ld_returned" /\ ~result.none /\ Calls(io, "open") = <<>>

\* C22: whenever a remote source is configured, every row set the resolver
\* returns from the remote sheet, from a fresh cache object or from a stale
\* cache object has passed the schema validation of its kind.
C22_ReturnedRowsPassedValidation ==
    HasRemote /\ ReturnedFromRemoteOrCache => PassesSchema(result.rows)

\* the position of the resolver among its tiers
TierRank ==
    CASE pc = "ld_start" -> 1
      [] pc = "ld_fetch" -> 2
      [] pc = "ld_stale" -> 3
      [] pc = "ld_local" -> 4
      [] OTHER -> 5

\* C24: a single resolution makes at most one remote fetch attempt and at
\* most one cache write (one put_object request at most), and every step
\* takes it to a later tier, so that no tier is tried twice and it returns
\* after four steps at most, whatever the remote and the object store do.
C24_OneFetchOneWriteEachTierOnce ==
    /\ [](/\ Len(Calls(io, "fetch")) <= 1
          /\ Len(Calls(io, "write")) <= 1
          /\ Len(Calls(io, "put_object")) <= 1
          /\ Len(Calls(io, "head")) <= 1
          /\ Len(Calls(io, "read")) <= 2
          /\ Len(Calls(io, "open")) <= 1)
    /\ [][TierRank' > TierRank]_vars

\* A resolution returned after it tried every tier: the head of the cache
\* object, the failed fetch, the failed read of the stale object and the
\* local file; the store and the remote failed at every turn.
C24_Witness ==
    /\ pc = "ld_returned"
    /\ HasRemote /\ HasBucket
    /\ s3.client /\ s3.get_fails /\ CacheObject.exists /\ CacheAge < TtlSeconds
    /\ io = <<Event("head", TRUE), Event("read", FALSE), Event("fetch", FALSE),
              Event("read", FALSE), Event("open", TRUE)>>

\* the object store cannot give the cache object: no client, no object under
\* the key (head_object and get_object fail), or a failing get_object
CacheUnavailable == ~s3.client \/ ~CacheObject.exists \/ s3.get_fails

\* the remote sheet gives valid rows
RemoteValid == RemoteValues.ok /\ RemoteValues.values # <<>> /\ PassesSchema(RemoteRows)

\* C23: no failure of the remote fetch or of an object-store operation
\* (head, read, write, missing client) leaves the resolver as an exception:
\* a cache object that cannot be had sends the fresh-cache tier on to the
\* fetch and the stale-cache tier on to the local file, a failed fetch sends
\* the resolver on to the stale cache, a failed or impossible cache write
\* does not keep valid remote rows from being returned, and the resolver ends
\* by returning rows or None.
C23_RemoteAndStoreFailuresNeverPropagate ==
    [][/\ exc' = ""
       /\ pc' \in {"ld_fetch", "ld_stale", "ld_local", "ld_returned"}
       /\ pc = "ld_start" /\ HasRemote /\ CacheUnavailable =>
             pc' = "ld_fetch" /\ result' = result
       /\ pc = "ld_fetch" /\ ~RemoteValues.ok =>
             pc' = "ld_stale" /\ result' = result /\ s3' = s3
       /\ pc = "ld_fetch" /\ RemoteValid =>
             pc' = "ld_returned" /\ result' = Rows(RemoteRows)
       /\ pc = "ld_stale" /\ CacheUnavailable =>
             pc' = "ld_local" /\ result' = result
       /\ pc = "ld_local" =>
             /\ pc' = "ld_returned"
             /\ result' = IF files[call.fallback_path].exists THEN Rows(LocalRows) ELSE NoRows]_vars

\* The read of the fresh cache object failed, the fetch of the sheet failed,
\* the read of the stale object failed, and the rows of the local file were
\* returned.
C23_Witness ==
    /\ pc = "ld_returned"
    /\ HasRemote /\ HasBucket
    /\ s3.client /\ s3.get_fails /\ CacheObject.exists /\ CacheAge < TtlSeconds
    /\ ~RemoteValues.ok
    /\ Calls(io, "read") = <<Event("read", FALSE), Event("read", FALSE)>>
    /\ Calls(io, "fetch") = <<Event("fetch", FALSE)>>
    /\ exc = ""
    /\ result = Rows(LocalRows)
    /\ LocalRows # <<>>

(***************************************************************************)
(* The winner among options with equal keys.                               *)
(***************************************************************************)
\* the positions, in the input order of the group just decided, of the
\* satisfied options equal to the winner on likert_value, weight and priority
EqualToChosen ==
    LET opts == OptionsOfGroup(business_log[gidx - 1].group_id)
    IN  { j \in SatisfiedIn(gidx - 1) :
            /\ opts[j].likert_value = chosen.likert_value
            /\ opts[j].weight = chosen.weight
            /\ opts[j].priority = chosen.priority }

\* C30: when several satisfied options of a group are equal on likert_value,
\* weight and priority, the chosen option is the one of them that comes
\* first in the input option sequence; the input option list is never
\* reordered, and the list of every group keeps the input order.
C30_EarliestOfEqualOptionsWins ==
    /\ [](GroupDecided =>
            LET opts == OptionsOfGroup(business_log[gidx - 1].group_id)
                first == CHOOSE j \in EqualToChosen : \A i \in EqualToChosen : j <= i
            IN  /\ EqualToChosen # {}
                /\ chosen = opts[first]
                /\ business_log[gidx - 1].chosen = ChosenField(opts[first]))
    /\ [](pc \in {"br_loop", "br_returned"} =>
            \A k \in 1..Len(groups) : groups[k].options = OptionsOfGroup(groups[k].group_id))
    /\ [][br_options' = br_options]_vars

\* The winner of a group came before a different satisfied option with the
\* same likert_value, weight and priority.
C30_Witness ==
    /\ GroupDecided
    /\ LET opts == OptionsOfGroup(business_log[gidx - 1].group_id)
       IN  \E i \in EqualToChosen : \E j \in EqualToChosen :
              i < j /\ opts[i] = chosen /\ opts[j] # chosen

(***************************************************************************)
(* evaluate_business_rules as a function.                                  *)
(***************************************************************************)
RECURSIVE BusinessFrom(_, _, _)
\* the loop over the groups gs, from the score and the log st reached so far
BusinessFrom(gs, matched, st) ==
    IF gs = <<>> THEN st
    ELSE LET satisfied == SatisfiedOf(Head(gs).options, matched)
         IN  BusinessFrom(Tail(gs), matched,
                [business_score |-> IF satisfied # <<>>
                                    THEN FAdd(st.business_score, satisfied[1].weight)
                                    ELSE st.business_score,
                 business_log |-> Append(st.business_log, BusinessEntry(Head(gs), satisfied))])

\* evaluate_business_rules(atomic_log, br_options)
EvaluateBusinessRules(alog, opts) ==
    IF opts = <<>> THEN [business_score |-> 0, business_log |-> <<>>]
    ELSE BusinessFrom(GroupsOf(opts), MatchedAtomicIds(alog),
                      [business_score |-> 0, business_log |-> <<>>])

(***************************************************************************)
(* The is_gate flag.                                                       *)
(***************************************************************************)
\* the rule list rs with the is_gate values g
WithGates(rs, g) == [k \in 1..Len(rs) |-> [rs[k] EXCEPT !.is_gate = g[k]]]

\* the log entry e without its is_gate field
WithoutGate(e) == [f \in (DOMAIN e) \ {"is_gate"} |-> e[f]]

\* business options the two atomic logs are given
C26_OptionLists ==
    { <<o>> : o \in BasicOptions } \cup
    { << BusinessRuleOption("g1", PyNum(1), 3, <<>>, <<"r1">>, <<>>, 1),
         BusinessRuleOption("g2", PyNone, 1, <<"r1", "r2">>, <<>>, <<>>, 1),
         BusinessRuleOption("g1", PyNum(2), 5, <<>>, <<>>, <<"r1">>, 2),
         BusinessRuleOption("g2", PyNum(1), 3, <<>>, <<"r2">>, <<>>, BigWeight) >> }

\* C26: a rule list that differs from the evaluated one only in the is_gate
\* values of its rules gives, for the same adapter, the same outcome
\* (return, or the same exception), the same total, log entries with the
\* same matched and weight_applied (the same entries but for is_gate), and,
\* for the same business options, the same business score and log.
C26_GateDoesNotInfluenceScoring ==
    pc \in {"returned", "raised"} =>
        \A g \in [1..Len(rules) -> BOOLEAN] :
            LET other == EvaluateRules(provider, WithGates(rules, g))
            IN  /\ other.pc = pc
                /\ other.exc = exc
                /\ pc = "returned" =>
                      /\ other.score = score
                      /\ Len(other.log) = Len(log)
                      /\ \A k \in 1..Len(log) :
                            /\ other.log[k].matched = log[k].matched
                            /\ other.log[k].weight_applied = log[k].weight_applied
                            /\ WithoutGate(other.log[k]) = WithoutGate(log[k])
                      /\ \A opts \in C26_OptionLists :
                            EvaluateBusinessRules(other.log, opts) = EvaluateBusinessRules(log, opts)

\* A rule list with a gate rule and a rule that is not a gate, both matched
\* with their weights applied, was evaluated, and a business option whose
\* condition reads the gate rule is chosen with a positive score.
C26_Witness ==
    /\ pc = "returned"
    /\ \E k \in 1..Len(rules) : \E j \in 1..Len(rules) :
          /\ rules[k].is_gate /\ ~IsErrorEntry(log[k]) /\ log[k].matched /\ log[k].weight_applied > 0
          /\ ~rules[j].is_gate /\ ~IsErrorEntry(log[j]) /\ log[j].matched /\ log[j].weight_applied > 0
          /\ rules[k].id = "r1"
    /\ score > 0
    /\ \E opts \in C26_OptionLists :
          LET b == EvaluateBusinessRules(log, opts)
          IN  b.business_score > 0 /\ Len(b.business_log) = 2

(***************************************************************************)
(* load_rules, load_rules_from_csv, load_business_rules and                *)
(* load_business_rules_from_csv: the rows as Rule and BusinessRuleOption   *)
(* objects.                                                                *)
(***************************************************************************)
ColValueExact == <<"v", "a", "l", "u", "e", "_", "e", "x", "a", "c", "t">>
ColWindowValue == <<"w", "i", "n", "d", "o", "w", "_", "v", "a", "l", "u", "e">>
ColIsGate == <<"i", "s", "_", "g", "a", "t", "e">>
ColPriority == <<"p", "r", "i", "o", "r", "i", "t", "y">>
ColAllOf == <<"A", "L", "L", "_", "O", "F">>
ColAnyOf == <<"A", "N", "Y", "_", "O", "F">>
ColNoneOf == <<"N", "O", "N", "E", "_", "O", "F">>

\* The ids, metric names and operators of the model, and how a table cell
\* spells them.
Names ==
    << "", "r1", "r2", "r3", "r9", "g1", "g2", "flag", "five", "none", "broken",
       "EXISTS", "MISSING", "EQ", "GTE", "LT", "FOO" >>
Spellings ==
    << <<>>, <<"r", "1">>, <<"r", "2">>, <<"r", "3">>, <<"r", "9">>, <<"g", "1">>, <<"g", "2">>,
       <<"f", "l", "a", "g">>, <<"f", "i", "v", "e">>, <<"n", "o", "n", "e">>,
       <<"b", "r", "o", "k", "e", "n">>, <<"E", "X", "I", "S", "T", "S">>,
       <<"M", "I", "S", "S", "I", "N", "G">>, <<"E", "Q">>, <<"G", "T", "E">>, <<"L", "T">>,
       <<"F", "O", "O">> >>

\* the string of the model a cell spells ("?" for a text that is none of them)
Intern(cell) ==
    IF \E k \in 1..Len(Names) : Spellings[k] = cell
    THEN Names[CHOOSE k \in 1..Len(Names) : Spellings[k] = cell]
    ELSE "?"

\* int(str): the strings of the model hold no '.', exponent, "inf", "nan" or
\* '_', so that int() accepts what float() accepts
StrToInt(s) == StrToFloat(s)

\* float(row[k]) if row.get(k) and str(row[k]).strip() else default
FloatCell(row, k, default) ==
    LET v == RowGet(row, k)
    IN  IF Truthy(v) /\ StrStrip(v.s) # <<>> THEN StrToFloat(v.s) ELSE Ret(default)

\* int(row[k]) if row.get(k) and str(row[k]).strip() else None
IntCell(row, k) ==
    LET v == RowGet(row, k)
    IN  IF Truthy(v) /\ StrStrip(v.s) # <<>> THEN StrToInt(v.s) ELSE Ret(PyNone)

\* load_rules: (row.get(k) or "").strip(); load_rules_from_csv (strict):
\* row[k].strip(), a KeyError without the column and an AttributeError on the
\* None of a short row
TextCell(row, k, strict) ==
    IF ~strict THEN Ret(PyStr(StrippedCell(row, k)))
    ELSE IF k \notin DOMAIN row.cols THEN Raise("KeyError")
    ELSE IF IsNone(row.cols[k]) THEN Raise("AttributeError")
    ELSE Ret(PyStr(StrStrip(row.cols[k].s)))

\* load_rules: str(row.get("is_gate", "FALSE")).strip().upper() == "TRUE";
\* load_rules_from_csv (strict): row.get("is_gate", "FALSE").strip()...
IsGateCell(row, strict) ==
    IF ColIsGate \notin DOMAIN row.cols THEN Ret(PyBool(FALSE))
    ELSE IF IsNone(row.cols[ColIsGate])
    THEN (IF strict THEN Raise("AttributeError") ELSE Ret(PyBool(FALSE)))
    ELSE Ret(PyBool(StrUpper(StrStrip(row.cols[ColIsGate].s)) = <<"T", "R", "U", "E">>))

\* the exception of the first call that raised, in the order of the calls
FirstRaised(calls) ==
    Raise(calls[CHOOSE k \in 1..Len(calls) :
                   calls[k].raised /\ \A j \in 1..(k - 1) : ~calls[j].raised].exc)

\* The Rule of a row.  args are the arguments of Rule(...) that may raise,
\* in the order they are evaluated: id, category, label, metric, operator,
\* value_low, value_high, window_value, weight, is_gate.
RuleOfArgs(args, value_exact) ==
    IF \E k \in 1..Len(args) : args[k].raised THEN FirstRaised(args)
    ELSE Ret(Rule(Intern(args[1].v.s), Intern(args[4].v.s), Intern(StrUpper(args[5].v.s)),
                  args[6].v, args[7].v, value_exact, args[9].v.n, args[10].v.b))

RowToRule(row, strict) ==
    RuleOfArgs(<< TextCell(row, ColId, strict), TextCell(row, ColCategory, strict),
                  TextCell(row, ColLabel, strict), TextCell(row, ColMetric, strict),
                  TextCell(row, ColOperator, strict), FloatCell(row, ColValueLow, PyNone),
                  FloatCell(row, ColValueHigh, PyNone), IntCell(row, ColWindowValue),
                  FloatCell(row, ColWeight, PyNum(0)), IsGateCell(row, strict) >>,
               ParseExact(StrippedCell(row, ColValueExact)))

\* the objects made of the rows, or the exception of the first row that
\* raised
Collect(made) ==
    IF \E k \in 1..Len(made) : made[k].raised THEN FirstRaised(made)
    ELSE Ret([k \in 1..Len(made) |-> made[k].v])

\* the loop over the rows of load_rules and of load_rules_from_csv (strict)
RowsToRules(rows, strict) == Collect([k \in 1..Len(rows) |-> RowToRule(rows[k], strict)])

RECURSIVE SplitFrom(_, _)
\* str.split(","), from position i on
SplitFrom(s, i) ==
    LET c == NextComma(s, i)
    IN  <<SubSeq(s, i, c - 1)>> \o (IF c <= Len(s) THEN SplitFrom(s, c + 1) ELSE <<>>)

\* _parse_id_list(cell)
ParseIdList(cell) ==
    IF ~Truthy(cell) THEN <<>>
    ELSE LET values == SplitFrom(cell.s, 1)
             stripped == [k \in 1..Len(values) |-> StrStrip(values[k])]
             kept == SelectSeq(stripped, LAMBDA v : v # <<>>)
         IN  [k \in 1..Len(kept) |-> Intern(kept[k])]

\* The BusinessRuleOption of a row.  args are the arguments that may raise,
\* in the order they are evaluated: priority, likert_value, weight.
OptionOfArgs(args, group_id, all_of, any_of, none_of) ==
    IF \E k \in 1..Len(args) : args[k].raised THEN FirstRaised(args)
    ELSE Ret(BusinessRuleOption(group_id, args[1].v, args[2].v.n, all_of, any_of, none_of,
                                args[3].v.n))

\* int(row["likert_value"]) if row.get("likert_value") else 0
LikertCell(row) ==
    IF Truthy(RowGet(row, ColLikertValue))
    THEN StrToInt(RowGet(row, ColLikertValue).s) ELSE Ret(PyNum(0))

RowToOption(row) ==
    OptionOfArgs(<< IntCell(row, ColPriority), LikertCell(row), FloatCell(row, ColWeight, PyNum(0)) >>,
                 Intern(StrippedCell(row, ColId)),
                 ParseIdList(RowGet(row, ColAllOf)),
                 ParseIdList(RowGet(row, ColAnyOf)),
                 ParseIdList(RowGet(row, ColNoneOf)))

\* the loop over the rows of load_business_rules and of
\* load_business_rules_from_csv
RowsToOptions(rows) == Collect([k \in 1..Len(rows) |-> RowToOption(rows[k])])

\* A loader of the options that raises without the file, as the loader of
\* the rules does.
BusinessRulesRaiseWithoutFile(provider_name) ==
    IF ~files[FallbackPath("br", provider_name)].exists THEN Raise("FileNotFoundError")
    ELSE RowsToOptions(CsvStringToDicts(files[FallbackPath("br", provider_name)].text))

\* load_rules_from_csv(provider_name, rules_dir): FileNotFoundError without
\* the file (the file is read with csv.DictReader, which gives the rows of
\* _csv_string_to_dicts for the texts of the model)
LoadRulesFromCsv(provider_name) ==
    LET rules_path == FallbackPath("rules", provider_name)
    IN  IF ~files[rules_path].exists THEN Raise("FileNotFoundError")
        ELSE RowsToRules(CsvStringToDicts(files[rules_path].text), TRUE)

\* load_business_rules_from_csv(provider_name, rules_dir): [] without the file
LoadBusinessRulesFromCsv(provider_name) ==
    LET br_path == FallbackPath("br", provider_name)
    IN  IF ~files[br_path].exists THEN Ret(<<>>)
        ELSE RowsToOptions(CsvStringToDicts(files[br_path].text))

(***************************************************************************)
(* evaluate_dynamic_from_aggregated (rules_engine.py) and                  *)
(* evaluate_all_providers (graph_engine.py): the tables of the model.      *)
(***************************************************************************)
RunRulesHeader ==
    <<ColId, ColCategory, ColLabel, ColMetric, ColOperator, ColValueExact, ColWeight, ColIsGate>>

RuleRow(id, metric, operator, value_exact, weight, is_gate) ==
    <<id, <<"c">>, <<"l">>, metric, operator, value_exact, weight, is_gate>>

\* two rules that evaluate
RulesGood ==
    << RunRulesHeader,
       RuleRow(<<"r", "1">>, <<"f", "l", "a", "g">>, <<"e", "x", "i", "s", "t", "s">>, <<>>, <<"1">>, <<"T", "R", "U", "E">>),
       RuleRow(<<"r", "2">>, <<"f", "i", "v", "e">>, <<"G", "T", "E">>, <<" ", "5">>, <<"2">>, <<"f", "a", "l", "s", "e">>) >>

\* a rule that compares a number with a text
RulesRaising ==
    << RunRulesHeader,
       RuleRow(<<"r", "1">>, <<"f", "l", "a", "g">>, <<"E", "X", "I", "S", "T", "S">>, <<>>, <<"1">>, <<>>),
       RuleRow(<<"r", "2">>, <<"f", "i", "v", "e">>, <<"L", "T">>, <<"a", "b", "c">>, <<"1">>, <<>>) >>

\* a rule on a metric the adapter fails to give
RulesBroken ==
    << RunRulesHeader,
       RuleRow(<<"r", "1">>, <<"b", "r", "o", "k", "e", "n">>, <<"E", "X", "I", "S", "T", "S">>, <<>>, <<"1">>, <<>>),
       RuleRow(<<"r", "2">>, <<"f", "i", "v", "e">>, <<"G", "T", "E">>, <<"5">>, <<"2">>, <<>>) >>

\* a weight that is not a number
RulesBadWeight ==
    << RunRulesHeader,
       RuleRow(<<"r", "1">>, <<"f", "l", "a", "g">>, <<"E", "X", "I", "S", "T", "S">>, <<>>, <<"x">>, <<>>) >>

RunBrHeader ==
    <<ColId, ColCategory, ColBusinessRuleLabel, ColLikertValue, ColWeight, ColPriority,
      ColAllOf, ColAnyOf, ColNoneOf>>

BrRow(id, likert_value, weight, priority, all_of, any_of, none_of) ==
    <<id, <<"c">>, <<"b">>, likert_value, weight, priority, all_of, any_of, none_of>>

BrGood ==
    << RunBrHeader,
       BrRow(<<"g", "1">>, <<"3">>, <<"1">>, <<"1">>, <<>>, <<"r", "1">>, <<>>),
       BrRow(<<"g", "1">>, <<"5">>, <<"2">>, <<"2">>, <<>>, <<>>, <<"r", "1">>),
       BrRow(<<"g", "2">>, <<"1">>, <<"2">>, <<>>, <<"r", "1", ",", " ", "r", "2">>, <<>>, <<>>) >>

\* a likert_value that is not a number
BrBadLikert ==
    << RunBrHeader, BrRow(<<"g", "1">>, <<"x">>, <<"1">>, <<>>, <<>>, <<>>, <<>>) >>

\* Where a table of a provider is: in the remote sheet, in a fresh cache
\* object, in the local file, or nowhere.
Nowhere ==
    [object |-> NoObject, sheet |-> [ok |-> FALSE, values |-> <<>>],
     file |-> [exists |-> FALSE, text |-> <<>>]]
FromSheet(values) == [Nowhere EXCEPT !.sheet = [ok |-> TRUE, values |-> values]]
FromFreshCache(values) ==
    [Nowhere EXCEPT !.object = Object(SheetValuesToCsvText(values), StartTime - 1)]
FromFile(values) ==
    [Nowhere EXCEPT !.file = [exists |-> TRUE,
                              text |-> SelectSeq(SheetValuesToCsvText(values), LAMBDA c : c # "\r")]]

\* The payload (or the provider file) of a provider: whether the file can be
\* read, whether the adapter can be built, and the adapter.
Payload(readable, loads, k) == [readable |-> readable, loads |-> loads, adapter |-> ProviderOf(k)]

\* The providers of a run: their tables and payloads.
Profiles ==
    { [rules |-> FromSheet(RulesGood), br |-> FromSheet(BrGood), payload |-> Payload(TRUE, TRUE, 0)],
      [rules |-> FromSheet(RulesRaising), br |-> FromSheet(BrGood), payload |-> Payload(TRUE, TRUE, 0)],
      [rules |-> Nowhere, br |-> FromSheet(BrGood), payload |-> Payload(TRUE, TRUE, 0)],
      [rules |-> FromFile(RulesGood), br |-> Nowhere, payload |-> Payload(TRUE, TRUE, 0)],
      [rules |-> FromFile(RulesBroken), br |-> FromFile(BrBadLikert), payload |-> Payload(TRUE, TRUE, 0)],
      [rules |-> FromFreshCache(RulesBadWeight), br |-> Nowhere, payload |-> Payload(TRUE, TRUE, 0)],
      [rules |-> FromFile(RulesGood), br |-> FromFile(BrGood), payload |-> Payload(TRUE, FALSE, 0)],
      [rules |-> FromFile(RulesGood), br |-> FromFreshCache(BrGood), payload |-> Payload(FALSE, TRUE, 1)] }

RunNames == {"github", "gitlab"}
RunNameLists == { <<"github">>, <<"github", "gitlab">>, <<"gitlab", "github">> }

\* the stores of a run: the tables of the named providers where their
\* profiles put them, nothing for any other provider
World(names, prof) ==
    LET At(kind, n) == IF n \in Elems(names) THEN prof[n][kind] ELSE Nowhere
    IN  /\ s3 = [client |-> TRUE, get_fails |-> FALSE, put_fails |-> FALSE,
                 objects |-> [key \in { CacheKey(PyStr(PrefixDefault), kind, n) :
                                          kind \in Kinds, n \in RunNames } |->
                                 At(key[2], key[3]).object]]
        /\ sheets = [sn \in { SheetName(kind, n) : kind \in Kinds, n \in RunNames } |->
                        At(CHOOSE kind \in Kinds : SheetName(kind, sn[2]) = sn, sn[2]).sheet]
        /\ files = [path \in { FallbackPath(kind, n) : kind \in Kinds, n \in RunNames } |->
                       At(CHOOSE kind \in Kinds : FallbackPath(kind, path[2]) = path, path[2]).file]

InitRun ==
    /\ \E names \in RunNameLists : \E prof \in [Elems(names) -> Profiles] :
          /\ World(names, prof)
          /\ provider_payloads =
                [k \in 1..Len(names) |-> [name |-> names[k], payload |-> prof[names[k]].payload]]
    /\ \E e \in {"dynamic", "csv"} :
          /\ entry = e
          /\ \E configured \in (IF e = "csv" THEN {FALSE} ELSE BOOLEAN) :
                environ = IF configured
                          THEN Environ(PyStr(<<"s">>), PyStr(<<"k">>), PyStr(<<"b">>), PyNone, PyNone)
                          ELSE Environ(PyNone, PyNone, PyNone, PyNone, PyNone)
    /\ pidx = 1
    /\ total_score = 0
    /\ all_provider_results = <<>>
    /\ now = StartTime
    /\ call = <<>>
    /\ result = NoRows
    /\ io = <<>>
    /\ exc = ""
    /\ pc = "run_loop"
    /\ RulesIdle
    /\ BrIdle
    /\ ParIdle

(***************************************************************************)
(* The run over the providers as a process: one iteration of the loop      *)
(* calls the loaders, builds the adapter and evaluates; "except Exception" *)
(* ends an iteration that raised.                                          *)
(***************************************************************************)
\* the provider of the iteration
CurrentName == provider_payloads[pidx].name
CurrentPayload == provider_payloads[pidx].payload

InRun == pc = "run_loop" /\ pidx <= Len(provider_payloads)

\* the call of _load_csv_rows_dynamic(provider_name, kind, fallback_path)
CallResolver(provider_name, kind) ==
    /\ call' = [provider_name |-> provider_name, kind |-> kind,
                fallback_path |-> FallbackPath(kind, provider_name)]
    /\ result' = NoRows
    /\ io' = <<>>
    /\ pc' = "ld_start"

\* evaluate_dynamic_from_aggregated: rules = load_rules(provider_name, script_dir)
RunLoadRules ==
    /\ InRun
    /\ entry = "dynamic"
    /\ CallResolver(CurrentName, "rules")
    /\ UNCHANGED <<ruleVars, brVars, environ, s3, sheets, files, now, runVars, parVars, exc>>

\* the loader of the rules returned or raised
RulesLoaded(loaded, next) ==
    IF loaded.raised
    THEN /\ exc' = loaded.exc
         /\ pc' = "raised"
         /\ rules' = rules
    ELSE /\ rules' = loaded.v
         /\ pc' = next
         /\ exc' = exc

\* load_rules after the resolver returned: load_rules_from_csv when there are
\* no rows, the rows as rules otherwise
LoadRules ==
    /\ pc = "ld_returned"
    /\ call.kind = "rules"
    /\ RulesLoaded(IF result.none THEN LoadRulesFromCsv(call.provider_name)
                   ELSE RowsToRules(result.rows, FALSE), "run_provider")
    /\ UNCHANGED <<provider, idx, score, log, brVars, ldVars, runVars, parVars>>

\* evaluate_all_providers: rules = engine.load_rules_from_csv(provider_name, base_dir)
RunLoadRulesFromCsv ==
    /\ InRun
    /\ entry = "csv"
    /\ RulesLoaded(LoadRulesFromCsv(CurrentName), "run_config")
    /\ UNCHANGED <<provider, idx, score, log, brVars, ldVars, runVars, parVars>>

\* evaluate_all_providers: config = engine.read_provider_config(provider_path)
ReadProviderConfig ==
    /\ pc = "run_config"
    /\ IF CurrentPayload.readable
       THEN pc' = "run_provider" /\ exc' = exc
       ELSE pc' = "raised" /\ exc' = "JSONDecodeError"
    /\ UNCHANGED <<ruleVars, brVars, ldVars, runVars, parVars>>

\* provider = get_provider_instance(provider_name, payload), a ValueError
\* when the adapter cannot be built; then the call of evaluate_rules
GetProviderInstance ==
    /\ pc = "run_provider"
    /\ IF CurrentPayload.loads
       THEN /\ provider' = CurrentPayload.adapter
            /\ idx' = 1
            /\ score' = 0
            /\ log' = <<>>
            /\ pc' = "loop"
            /\ exc' = exc
       ELSE /\ pc' = "raised"
            /\ exc' = "ValueError"
            /\ UNCHANGED <<provider, idx, score, log>>
    /\ UNCHANGED <<rules, brVars, ldVars, runVars, parVars>>

\* evaluate_dynamic_from_aggregated: br_options = load_business_rules(provider_name, script_dir)
RunLoadBusinessRules ==
    /\ pc = "returned"
    /\ entry = "dynamic"
    /\ CallResolver(CurrentName, "br")
    /\ UNCHANGED <<ruleVars, brVars, environ, s3, sheets, files, now, runVars, parVars, exc>>

\* the call of evaluate_business_rules(atomic_log, br_options)
CallEvaluateBusinessRules(options) ==
    /\ atomic_log' = log
    /\ br_options' = options
    /\ matched_atomic_ids' = {}
    /\ groups' = <<>>
    /\ gidx' = 1
    /\ chosen' = PyNone
    /\ business_score' = 0
    /\ business_log' = <<>>
    /\ pc' = "br_start"

\* the loader of the options returned or raised
OptionsLoaded(loaded) ==
    IF loaded.raised
    THEN /\ exc' = loaded.exc
         /\ pc' = "raised"
         /\ UNCHANGED brVars
    ELSE /\ CallEvaluateBusinessRules(loaded.v)
         /\ exc' = exc

\* load_business_rules after the resolver returned:
\* load_business_rules_from_csv when there are no rows, the rows as options
\* otherwise
LoadBusinessRules ==
    /\ pc = "ld_returned"
    /\ call.kind = "br"
    /\ OptionsLoaded(IF result.none THEN LoadBusinessRulesFromCsv(call.provider_name)
                     ELSE RowsToOptions(result.rows))
    /\ UNCHANGED <<ruleVars, ldVars, runVars, parVars>>

\* evaluate_all_providers: br_options = engine.load_business_rules_from_csv(provider_name, base_dir)
RunLoadBusinessRulesFromCsv ==
    /\ pc = "returned"
    /\ entry = "csv"
    /\ OptionsLoaded(LoadBusinessRulesFromCsv(CurrentName))
    /\ UNCHANGED <<ruleVars, ldVars, runVars, parVars>>

\* the score breakdown of a provider (round(x, 6) leaves the floats of the
\* model, which are whole numbers, as they are)
ScoreBreakdown ==
    IF entry = "dynamic"
    THEN [score |-> FAdd(score, business_score), score_atomic |-> score,
          score_business |-> business_score, business |-> business_log,
          errors |-> SelectSeq(log, IsErrorEntry)]
    ELSE [score |-> FAdd(score, business_score), score_atomic |-> score,
          score_business |-> business_score, atomic_log |-> log,
          business_log |-> business_log]

\* the error descriptor of a provider
ErrorDescriptor(e) == [error |-> TRUE, exception_type |-> e]

\* the end of the try block: the provider's total and its entry
RunRecord ==
    /\ pc = "br_returned"
    /\ total_score' = FAdd(total_score, FAdd(score, business_score))
    /\ all_provider_results' = (CurrentName :> ScoreBreakdown) @@ all_provider_results
    /\ pidx' = pidx + 1
    /\ pc' = "run_loop"
    /\ UNCHANGED <<ruleVars, brVars, ldVars, provider_payloads, entry, parVars, exc>>

\* A run without the try block: the exception of a provider ends the loop.
RunEndsAtException ==
    /\ pc = "raised"
    /\ pc' = "run_returned"
    /\ UNCHANGED <<ruleVars, brVars, ldVars, runVars, parVars, exc>>

\* except Exception as e: the provider's error entry
RunExcept ==
    /\ pc = "raised"
    /\ all_provider_results' = (CurrentName :> ErrorDescriptor(exc)) @@ all_provider_results
    /\ exc' = ""
    /\ pidx' = pidx + 1
    /\ pc' = "run_loop"
    /\ UNCHANGED <<ruleVars, brVars, ldVars, provider_payloads, total_score, entry, parVars>>

\* the loop is over: the aggregate is returned
RunReturn ==
    /\ pc = "run_loop"
    /\ pidx > Len(provider_payloads)
    /\ pc' = "run_returned"
    /\ UNCHANGED <<ruleVars, brVars, ldVars, runVars, parVars, exc>>

NextRun ==
    \/ RunLoadRules \/ LoadRules \/ RunLoadRulesFromCsv \/ ReadProviderConfig
    \/ GetProviderInstance \/ RunLoadBusinessRules \/ LoadBusinessRules
    \/ RunLoadBusinessRulesFromCsv \/ RunRecord \/ RunExcept \/ RunReturn
    \/ NextLoad \/ Next \/ NextBR

SpecRun == InitRun /\ [][NextRun]_vars

(***************************************************************************)
(* Properties of the provider run.                                         *)
(***************************************************************************)
\* the resolver returned None to the loader of the given kind
NoRowsFor(kind) == pc = "ld_returned" /\ call.kind = kind /\ result.none

\* C21: when the resolver yields no rows for a provider, load_rules raises
\* FileNotFoundError (and no rules are loaded), load_business_rules raises
\* nothing and hands the empty option list to evaluate_business_rules, and
\* evaluate_business_rules on the empty list returns score 0 and an empty
\* log.
C21_NoRowsRulesRaiseOptionsEmpty ==
    /\ [][NoRowsFor("rules") =>
            pc' = "raised" /\ exc' = "FileNotFoundError" /\ rules' = rules]_vars
    /\ [][NoRowsFor("br") =>
            exc' = "" /\ pc' = "br_start" /\ br_options' = <<>>]_vars
    /\ [][pc = "br_start" /\ br_options = <<>> =>
            /\ pc' = "br_returned" /\ exc' = ""
            /\ business_score' = 0 /\ business_log' = <<>>]_vars

\* the first provider got the error entry of the missing rules, the second
\* one's options were resolved to nothing and evaluated
C21_Witness ==
    /\ pc = "br_returned"
    /\ entry = "dynamic"
    /\ pidx = 2
    /\ all_provider_results[provider_payloads[1].name] = ErrorDescriptor("FileNotFoundError")
    /\ call.kind = "br" /\ result.none
    /\ br_options = <<>> /\ business_score = 0 /\ business_log = <<>>

\* the providers requested of the run
Requested == { provider_payloads[k].name : k \in 1..Len(provider_payloads) }

\* the keys of a score breakdown of the entry point
BreakdownKeys ==
    IF entry = "dynamic" THEN {"score", "score_atomic", "score_business", "business", "errors"}
    ELSE {"score", "score_atomic", "score_business", "atomic_log", "business_log"}

IsScoreBreakdown(e) == DOMAIN e = BreakdownKeys /\ e.score = FAdd(e.score_atomic, e.score_business)
IsErrorDescriptor(e) == DOMAIN e = {"error", "exception_type"} /\ e.exception_type # ""

\* the providers that have been through the loop
Done == { provider_payloads[k].name : k \in 1..(pidx - 1) }

\* C25: the aggregate of a multi-provider run has exactly one entry for
\* every requested provider, a score breakdown or an error descriptor: while
\* the run goes on there is an entry for each provider that has been through
\* the loop and for no other, an iteration that raised (in the loading of the
\* rules or options, the construction of the adapter or the evaluation)
\* leaves an error entry with the type of the exception and goes on to the
\* next provider, and the entries of the other providers are not touched.
C25_OneEntryPerRequestedProvider ==
    /\ [](pc = "run_returned" => DOMAIN all_provider_results = Requested)
    /\ [](DOMAIN all_provider_results = Done)
    /\ [](\A n \in DOMAIN all_provider_results :
             IsScoreBreakdown(all_provider_results[n]) \/ IsErrorDescriptor(all_provider_results[n]))
    /\ [][pc = "raised" =>
            /\ all_provider_results'[CurrentName] = ErrorDescriptor(exc)
            /\ pidx' = pidx + 1 /\ pc' = "run_loop" /\ exc' = ""]_vars
    /\ [][\A n \in DOMAIN all_provider_results :
            n \in DOMAIN all_provider_results' /\ all_provider_results'[n] = all_provider_results[n]]_vars
    /\ [][pc = "br_returned" =>
            /\ all_provider_results'[CurrentName] = ScoreBreakdown
            /\ pidx' = pidx + 1 /\ pc' = "run_loop"]_vars

\* a run of two providers returned: the first one failed, the second one was
\* evaluated and has its score breakdown
C25_Witness ==
    /\ pc = "run_returned"
    /\ Len(provider_payloads) = 2
    /\ IsErrorDescriptor(all_provider_results[provider_payloads[1].name])
    /\ IsScoreBreakdown(all_provider_results[provider_payloads[2].name])
    /\ all_provider_results[provider_payloads[2].name].score > 0

(***************************************************************************)
(* A process that resolves one (kind, provider) pair again and again,      *)
(* while the clock advances and the remote sheet and the object store      *)
(* change between the resolutions.                                         *)
(***************************************************************************)
\* seconds the clock advances at most
MaxTicks == 2

\* RULES_CACHE_TTL_SECONDS of the process
TtlShort == <<"2">>

\* what the remote sheet may become: unreachable, one of two valid tables, an
\* invalid table
SeqSheets(kind) ==
    { [ok |-> FALSE, values |-> <<>>] } \cup
    { [ok |-> TRUE, values |-> v] : v \in {SheetA(kind), SheetB(kind), SheetBadNumber(kind)} }

\* the cache object when the process starts: absent, valid or invalid
SeqObjects(kind) ==
    { NoObject, Object(SheetValuesToCsvText(SheetA(kind)), StartTime - 1),
      Object(SheetValuesToCsvText(SheetBadNumber(kind)), StartTime - 1) }

InitSeq ==
    /\ \E kind \in Kinds :
       \E configured \in BOOLEAN, object \in SeqObjects(kind), sheet \in SeqSheets(kind),
          file \in {[exists |-> FALSE, text |-> <<>>], [exists |-> TRUE, text |-> LocalText(kind, <<"3">>)]} :
            Setup(kind,
                  Environ(IF configured THEN PyStr(<<"s">>) ELSE PyNone, PyStr(<<"k">>),
                          PyStr(<<"b">>), PyNone, PyStr(TtlShort)),
                  TRUE, FALSE, FALSE, object, sheet, file)
    /\ now = StartTime
    /\ result = NoRows
    /\ io = <<>>
    /\ exc = ""
    /\ pc = "ld_idle"
    /\ RulesIdle
    /\ BrIdle
    /\ RunIdle
    /\ ParIdle

\* the next call of _load_csv_rows_dynamic for the pair
SeqResolve ==
    /\ pc = "ld_idle"
    /\ CallResolver(call.provider_name, call.kind)
    /\ UNCHANGED <<ruleVars, brVars, environ, s3, sheets, files, now, runVars, parVars, exc>>

\* the resolution fetched valid rows and put them in the cache object
FetchedAndCached == Calls(io, "put_object") = <<Event("put_object", TRUE)>>

\* the object store has a client and get_object works
StoreReadable == s3.client /\ ~s3.get_fails

\* The resolver returned to its caller.  history keeps the last resolution
\* that fetched rows and cached them: its time, its rows, and whether the
\* store was readable at every resolution since.
SeqReturn ==
    /\ pc = "ld_returned"
    /\ call.provider_name \in ProviderNames
    /\ history' = IF FetchedAndCached
                  THEN << [at |-> now, rows |-> result, readable |-> TRUE] >>
                  ELSE [k \in DOMAIN history |->
                           [history[k] EXCEPT !.readable = @ /\ StoreReadable]]
    /\ pc' = "ld_idle"
    /\ UNCHANGED <<ruleVars, brVars, ldVars, runVars, suspended, snapshot, exc>>

\* a second passes
Tick ==
    /\ pc = "ld_idle"
    /\ now < StartTime + MaxTicks
    /\ now' = now + 1
    /\ UNCHANGED <<ruleVars, brVars, environ, s3, sheets, files, call, result, io, runVars, parVars, exc, pc>>

\* the remote sheet of the pair changes, becomes invalid or unreachable
SheetChanges ==
    /\ pc = "ld_idle"
    /\ \E sheet \in SeqSheets(call.kind) :
          /\ sheet # sheets[SheetName(call.kind, call.provider_name)]
          /\ sheets' = [sheets EXCEPT ![SheetName(call.kind, call.provider_name)] = sheet]
    /\ UNCHANGED <<ruleVars, brVars, environ, s3, files, now, call, result, io, runVars, parVars, exc, pc>>

\* the object store fails or recovers: the client, get_object, put_object
StoreChanges ==
    /\ pc = "ld_idle"
    /\ \E client \in BOOLEAN, get_fails \in BOOLEAN, put_fails \in BOOLEAN :
          /\ <<client, get_fails, put_fails>> # <<s3.client, s3.get_fails, s3.put_fails>>
          /\ s3' = [s3 EXCEPT !.client = client, !.get_fails = get_fails, !.put_fails = put_fails]
    /\ UNCHANGED <<ruleVars, brVars, environ, sheets, files, now, call, result, io, runVars, parVars, exc, pc>>

NextSeq == SeqResolve \/ NextLoad \/ SeqReturn \/ Tick \/ SheetChanges \/ StoreChanges

SpecSeq == InitSeq /\ [][NextSeq]_vars

(***************************************************************************)
(* Properties of repeated resolutions.                                     *)
(***************************************************************************)
\* the rows of a cache body pass the schema validation of the kind
ValidBody(kind, body) ==
    IF kind = "rules" THEN ValidateRulesRows(CsvStringToDicts(body))
    ELSE ValidateBusinessRows(CsvStringToDicts(body))

\* the object under the key is absent or holds schema-valid content
AbsentOrValid(objects, key) == ~objects[key].exists \/ ValidBody(key[2], objects[key].body)

\* a step leaves every object that is absent or valid absent or valid (an
\* object the step does not change is as valid as it was)
StaysAbsentOrValid ==
    \A key \in DOMAIN s3.objects :
        \/ s3'.objects[key] = s3.objects[key]
        \/ AbsentOrValid(s3.objects, key) => AbsentOrValid(s3'.objects, key)

\* C28: the resolver writes to the cache only rows it has just fetched from
\* the remote and that passed the validation: the objects of the store change
\* only in the fetch tier, when the remote gave valid rows, and then the
\* object of the pair becomes the text of those rows (which are returned)
\* with the time of the write; so a cache object that is absent or valid is
\* absent or valid after every step of every sequence of resolutions, and
\* the fresh-cache, stale-cache and local-file tiers leave the objects as
\* they are.
C28_CacheHoldsOnlyFetchedValidRows ==
    /\ [][s3'.objects # s3.objects =>
            /\ pc = "ld_fetch" /\ pc' = "ld_returned"
            /\ RemoteValid
            /\ s3'.objects = [s3.objects EXCEPT
                                 ![cache_key] = Object(SheetValuesToCsvText(RemoteValues.values), now)]
            /\ result' = Rows(RemoteRows)]_vars
    /\ [][StaysAbsentOrValid]_vars
    /\ [][(pc \in {"ld_start", "ld_stale", "ld_local"}) => s3'.objects = s3.objects]_vars

\* a resolution wrote valid rows of the remote to the cache object, the
\* remote became invalid, and a resolution after the TTL
\* went through the fetch to the stale cache and returned the valid rows of
\* the object
C28_Witness ==
    /\ pc = "ld_returned"
    /\ history # <<>>
    /\ now - history[1].at >= TtlSeconds
    /\ Calls(io, "fetch") # <<>>
    /\ Calls(io, "read") = <<Event("read", TRUE)>>
    /\ CacheObject.exists /\ CacheObject.last_modified = history[1].at
    /\ ValidBody(call.kind, CacheObject.body)
    /\ ~RemoteValid /\ RemoteValues.ok
    /\ result = history[1].rows

\* The resolver has returned, and an earlier resolution fetched valid rows
\* and cached them less than the TTL ago (history is that resolution until
\* the return is recorded).
BeforeExpiry == pc = "ld_returned" /\ history # <<>> /\ now - history[1].at < TtlSeconds

\* the same, the TTL or more ago
AtOrAfterExpiry == pc = "ld_returned" /\ history # <<>> /\ now - history[1].at >= TtlSeconds

\* the rows of the cached resolution were returned and the remote was not
\* asked
SameRowsWithoutFetch == result = history[1].rows /\ Calls(io, "fetch") = <<>>

Locals ==
    [provider |-> provider, rules |-> rules, idx |-> idx, score |-> score, log |-> log,
     atomic_log |-> atomic_log, br_options |-> br_options,
     matched_atomic_ids |-> matched_atomic_ids, groups |-> groups, gidx |-> gidx,
     chosen |-> chosen, business_score |-> business_score, business_log |-> business_log,
     call |-> call, result |-> result, io |-> io, exc |-> exc, pc |-> pc,
     provider_payloads |-> provider_payloads, pidx |-> pidx, total_score |-> total_score,
     all_provider_results |-> all_provider_results]

\* the worker w goes on
Resume(w) ==
    /\ provider' = w.provider /\ rules' = w.rules /\ idx' = w.idx
    /\ score' = w.score /\ log' = w.log
    /\ atomic_log' = w.atomic_log /\ br_options' = w.br_options
    /\ matched_atomic_ids' = w.matched_atomic_ids /\ groups' = w.groups /\ gidx' = w.gidx
    /\ chosen' = w.chosen /\ business_score' = w.business_score
    /\ business_log' = w.business_log
    /\ call' = w.call /\ result' = w.result /\ io' = w.io /\ exc' = w.exc /\ pc' = w.pc
    /\ provider_payloads' = w.provider_payloads /\ pidx' = w.pidx
    /\ total_score' = w.total_score /\ all_provider_results' = w.all_provider_results

\* the profiles of the providers of the workers
ParProfiles == Profiles

InitPar ==
    /\ \E prof \in [RunNames -> ParProfiles] :
          /\ World(<<"github", "gitlab">>, prof)
          /\ provider_payloads = << [name |-> "github", payload |-> prof["github"].payload] >>
          /\ suspended = << [provider |-> ProviderOf(0), rules |-> <<>>, idx |-> 1, score |-> 0,
                             log |-> <<>>, atomic_log |-> <<>>, br_options |-> <<>>,
                             matched_atomic_ids |-> {}, groups |-> <<>>, gidx |-> 1,
                             chosen |-> PyNone, business_score |-> 0, business_log |-> <<>>,
                             call |-> <<>>, result |-> NoRows, io |-> <<>>, exc |-> "",
                             pc |-> "run_loop",
                             provider_payloads |->
                                 << [name |-> "gitlab", payload |-> prof["gitlab"].payload] >>,
                             pidx |-> 1, total_score |-> 0, all_provider_results |-> <<>>] >>
          /\ snapshot = << [s3 |-> s3,
                            provider_payloads |->
                                [k \in 1..2 |->
                                    [name |-> <<"github", "gitlab">>[k],
                                     payload |-> prof[<<"github", "gitlab">>[k]].payload]]] >>
    /\ \E e \in {"dynamic", "csv"} :
          /\ entry = e
          /\ \E configured \in (IF e = "csv" THEN {FALSE} ELSE BOOLEAN) :
                environ = IF configured
                          THEN Environ(PyStr(<<"s">>), PyStr(<<"k">>), PyStr(<<"b">>), PyNone, PyNone)
                          ELSE Environ(PyNone, PyNone, PyNone, PyNone, PyNone)
    /\ history = <<>>
    /\ pidx = 1
    /\ total_score = 0
    /\ all_provider_results = <<>>
    /\ now = StartTime
    /\ call = <<>>
    /\ result = NoRows
    /\ io = <<>>
    /\ exc = ""
    /\ pc = "run_loop"
    /\ RulesIdle
    /\ BrIdle

\* the scheduler: the running worker is suspended and the other one goes on
Switch ==
    /\ suspended # <<>>
    /\ Resume(suspended[1])
    /\ suspended' = <<Locals>>
    /\ UNCHANGED <<environ, s3, sheets, files, now, entry, history, snapshot>>

\* Both workers have returned.  Their results and the store they left are
\* kept in history, and the same providers are run one after the other, in
\* one loop, from the store the workers started with.
RunInTurn ==
    /\ pc = "run_returned"
    /\ suspended # <<>>
    /\ suspended[1].pc = "run_returned"
    /\ history' = << [provider_results |->
                          all_provider_results @@ suspended[1].all_provider_results,
                      objects |-> s3.objects] >>
    /\ suspended' = <<>>
    /\ s3' = snapshot[1].s3
    /\ provider_payloads' = snapshot[1].provider_payloads
    /\ pidx' = 1
    /\ total_score' = 0
    /\ all_provider_results' = <<>>
    /\ pc' = "run_loop"
    /\ UNCHANGED <<ruleVars, brVars, environ, sheets, files, now, call, result, io, entry,
                   snapshot, exc>>

NextPar == NextRun \/ Switch \/ RunInTurn

SpecPar == InitPar /\ [][NextPar]_vars

(***************************************************************************)
(* Properties of interleaved workers.                                      *)
(***************************************************************************)
\* the providers have been run one after the other, after the workers
InTurnReturned == pc = "run_returned" /\ history # <<>>

\* a step leaves the cache objects of every provider but the running one's
\* as they are
OnlyOwnCacheObjects ==
    \A key \in DOMAIN s3.objects :
        key[3] # CurrentName => s3'.objects[key] = s3.objects[key]

\* C27: the evaluations of two distinct providers are independent: however
\* the steps of the two workers are interleaved, each provider gets the
\* entry (score breakdown or error descriptor) it gets when the two are run
\* one after the other from the same store, and the store is left the same;
\* and no step of a worker changes a cache object of another provider.
C27_InterleavedAsOneAfterTheOther ==
    /\ [](InTurnReturned =>
            /\ all_provider_results = history[1].provider_results
            /\ s3.objects = history[1].objects)
    /\ [][(pc \notin {"run_loop", "run_returned"}) => OnlyOwnCacheObjects]_vars

\* one worker fetched its rules and options and wrote both cache objects
\* while the other was between its two resolutions; the providers run in
\* turn gave the same entries
C27_Witness ==
    /\ InTurnReturned
    /\ entry = "dynamic"
    /\ DOMAIN history[1].provider_results = RunNames
    /\ all_provider_results = history[1].provider_results
    /\ \A n \in RunNames : IsScoreBreakdown(all_provider_results[n])
    /\ \A n \in RunNames, kind \in Kinds :
          /\ ~snapshot[1].s3.objects[CacheKey(PyStr(PrefixDefault), kind, n)].exists
          /\ s3.objects[CacheKey(PyStr(PrefixDefault), kind, n)].exists

====
